---------------------------- MODULE Spec2Model ----------------------------
(***************************************************************************)
(* A model of the document classifier (classifier.py) and of the field    *)
(* extractor (extractor.py) of the AI Form Filling Assistant.             *)
(*                                                                         *)
(* Text is modelled character by character.  A string is a sequence of    *)
(* characters; an ASCII character is the one-character TLA+ string, and a  *)
(* Devanagari code point U+09xx is the string "u09xx".  Python's regular   *)
(* expressions are modelled by a backtracking matcher (ReMatch, ReSearch)  *)
(* over patterns written as sequences of items, so that greedy and lazy    *)
(* repetition, alternation order, word boundaries and leftmost search      *)
(* behave as they do in the re module.                                     *)
(***************************************************************************)
EXTENDS Integers, Sequences, FiniteSets, TLC

VARIABLES
    text,       \* the recognized text handed to classify / extract
    doc_type,   \* the type extract_document_info is called with
    pc,         \* position in the call being modelled
    scores,     \* classify_document's scores dictionary
    result,     \* classify_document's return value [type, num, den]
    info,       \* extract_document_info's return value (key -> string)
    calls,      \* the calls in progress, one per thread, with their local data
    returned    \* the calls that have returned, with the value returned

vars == <<text, doc_type, pc, scores, result, info, calls, returned>>

\* A local assignment: Bind([x \in {e} |-> body]) is body with x standing for
\* the value of e, which is computed once however often body reads x.
Bind(f) == f[CHOOSE x \in DOMAIN f : TRUE]

-----------------------------------------------------------------------------
(* Characters and Python's str methods                                     *)

\* A TLA+ string literal as a sequence of one-character strings.
S(str) == [i \in 1..Len(str) |-> SubSeq(str, i, i)]

Range(f) == {f[i] : i \in DOMAIN f}

UpperLetters == S("ABCDEFGHIJKLMNOPQRSTUVWXYZ")
LowerLetters == S("abcdefghijklmnopqrstuvwxyz")
AsciiUpper == Range(UpperLetters)
AsciiLower == Range(LowerLetters)
AsciiLetter == AsciiUpper \cup AsciiLower
AsciiDigit == Range(S("0123456789"))

\* Devanagari letters (category Lo) that occur in the source.
DevaLetter ==
    {"u0905", "u0906", "u0913", "u0915", "u0916", "u0917", "u091A", "u091C",
     "u091D", "u091F", "u0921", "u0923", "u0924", "u0925", "u0926", "u0927",
     "u0928", "u092A", "u092B", "u092C", "u092D", "u092E", "u092F", "u0930",
     "u0932", "u0933", "u0935", "u0936", "u0937", "u0938", "u0939"}
\* Devanagari signs (categories Mn, Mc): not alphabetic, not word characters.
DevaSign ==
    {"u0902", "u0903", "u093E", "u093F", "u0940", "u0941", "u0942", "u0947",
     "u094B", "u094D"}
DevaDigits ==
    <<"u0966", "u0967", "u0968", "u0969", "u096A", "u096B", "u096C", "u096D",
      "u096E", "u096F">>
DevaDigit == Range(DevaDigits)
\* 'ऀ' <= c <= 'ॿ'
Devanagari == DevaLetter \cup DevaSign \cup DevaDigit

Whitespace == {" ", "\n", "\t"}
\* \d of a str pattern: every Unicode decimal digit
UniDigit == AsciiDigit \cup DevaDigit
\* \w of a str pattern: alphanumerics and the underscore
WordChar == AsciiLetter \cup UniDigit \cup DevaLetter \cup {"_"}
\* str.isalpha
IsAlpha(c) == c \in AsciiLetter \cup DevaLetter

ToLower == [c \in AsciiUpper |->
              LowerLetters[CHOOSE i \in 1..26 : UpperLetters[i] = c]]
ToUpper == [c \in AsciiLower |->
              UpperLetters[CHOOSE i \in 1..26 : LowerLetters[i] = c]]
LowerCh(c) == IF c \in AsciiUpper THEN ToLower[c] ELSE c
UpperCh(c) == IF c \in AsciiLower THEN ToUpper[c] ELSE c

\* str.lower, str.upper
Lower(s) == [i \in 1..Len(s) |-> LowerCh(s[i])]
Upper(s) == [i \in 1..Len(s) |-> UpperCh(s[i])]

\* sub in s
Contains(s, sub) ==
    \E i \in 0..(Len(s) - Len(sub)) : \A j \in 1..Len(sub) : s[i + j] = sub[j]

\* s.find(sub): the least offset, -1 when absent
Find(s, sub) ==
    IF Contains(s, sub)
    THEN CHOOSE i \in 0..(Len(s) - Len(sub)) :
            /\ \A j \in 1..Len(sub) : s[i + j] = sub[j]
            /\ \A k \in 0..(i - 1) : \E j \in 1..Len(sub) : s[k + j] # sub[j]
    ELSE -1

\* s[a:b] for 0 <= a, b <= len(s)
Slice(s, a, b) == SubSeq(s, a + 1, b)

\* the k-th least element of a set of numbers
Kth(set, k) == CHOOSE i \in set : Cardinality({j \in set : j < i}) = k - 1

\* s.lstrip(chars), s.rstrip(chars)
LStrip(s, cs) ==
    LET n == CHOOSE n \in 0..Len(s) :
                 /\ \A i \in 1..n : s[i] \in cs
                 /\ n = Len(s) \/ s[n + 1] \notin cs
    IN  SubSeq(s, n + 1, Len(s))
RStrip(s, cs) ==
    LET n == CHOOSE n \in 0..Len(s) :
                 /\ \A i \in (n + 1)..Len(s) : s[i] \in cs
                 /\ n = 0 \/ s[n] \notin cs
    IN  SubSeq(s, 1, n)
\* s.strip(), s.strip(chars)
StripChars(s, cs) == RStrip(LStrip(s, cs), cs)
Strip(s) == StripChars(s, Whitespace)

\* s.split(sep) for a one-character sep: the pieces between the
\* separators, empty ones included
SplitOn(s, sep) ==
    LET seps == {i \in 1..Len(s) : s[i] = sep}
        n == Cardinality(seps)
        cut(k) == IF k = 0 THEN 0 ELSE IF k = n + 1 THEN Len(s) + 1
                  ELSE Kth(seps, k)
    IN  [k \in 1..(n + 1) |-> SubSeq(s, cut(k - 1) + 1, cut(k) - 1)]

\* s.split(): the maximal runs of non-whitespace characters
Words(s) ==
    LET starts == {i \in 1..Len(s) :
                      s[i] \notin Whitespace
                      /\ (i = 1 \/ s[i - 1] \in Whitespace)}
        ends == {i \in 1..Len(s) :
                    s[i] \notin Whitespace
                    /\ (i = Len(s) \/ s[i + 1] \in Whitespace)}
    IN  [k \in 1..Cardinality(starts) |->
            SubSeq(s, Kth(starts, k), Kth(ends, k))]

\* sep.join(parts)
RECURSIVE Join(_, _)
Join(sep, parts) ==
    IF parts = <<>> THEN <<>>
    ELSE IF Len(parts) = 1 THEN parts[1]
    ELSE parts[1] \o sep \o Join(sep, Tail(parts))

\* s.replace(c, '') for a one-character c
RemoveChar(s, c) == SelectSeq(s, LAMBDA x : x # c)

\* str.title: a cased letter that follows a cased letter is lowered, any
\* other is raised
Title(s) ==
    [i \in 1..Len(s) |->
        IF i > 1 /\ s[i - 1] \in AsciiLetter THEN LowerCh(s[i])
        ELSE UpperCh(s[i])]

\* None, and Python's truth value of an Optional[str]
None == <<"<None>">>
Truthy(x) == x # None /\ x # <<>>

\* values that are not str: None, an int, a bytes object, a list
NonStrings == {None, <<"<int>">>, <<"<bytes>">>, <<"<list>">>}
IsStr(x) == x \notin NonStrings

\* the filter of a sequence, and its count, as comprehensions use them
Count(s, P(_)) == Len(SelectSeq(s, P))

-----------------------------------------------------------------------------
(* Regular expressions.  A pattern is a sequence of items:                 *)
(*   lit   a literal string                                                *)
(*   cls   a character class repeated min..max times (max -1: unbounded),  *)
(*         greedy unless lazy; neg complements the class                   *)
(*   alt   an ordered choice between patterns                              *)
(*   wb    \b      bol  ^      eol  $                                      *)
(*   open / close  the start and end of capture group g                    *)
(*   la    (?=...) a lookahead      nlb  (?<!...) a negative lookbehind    *)

Cls(set, min, max) ==
    [t |-> "cls", set |-> set, neg |-> FALSE, min |-> min, max |-> max,
     lazy |-> FALSE]
One(set) == Cls(set, 1, 1)
Opt(set) == Cls(set, 0, 1)
Star(set) == Cls(set, 0, -1)
Plus(set) == Cls(set, 1, -1)
LazyPlus(set) == [Cls(set, 1, -1) EXCEPT !.lazy = TRUE]
\* '.': any character but a line break
Dot(min, max) == [Cls({"\n"}, min, max) EXCEPT !.neg = TRUE]
Lit(s) == <<[t |-> "lit", s |-> s]>>
L(str) == Lit(S(str))
Alt(alts) == [t |-> "alt", alts |-> alts]
\* (?:r)?
Maybe(r) == Alt(<<r, <<>>>>)
WB == [t |-> "wb"]
Bol == [t |-> "bol"]
Eol == [t |-> "eol"]
Open(g) == [t |-> "open", g |-> g]
Close(g) == [t |-> "close", g |-> g]
LookAhead(r) == [t |-> "la", r |-> r]
NotBehind(r, width) == [t |-> "nlb", r |-> r, width |-> width]
\* (r) as capture group g
Group(g, r) == <<Open(g)>> \o r \o <<Close(g)>>

NoMatch == [ok |-> FALSE, b |-> -1, e |-> -1, g |-> <<>>]
NoGroups == [g \in 1..3 |-> <<-1, -1>>]

ClsHas(it, c, ic) ==
    LET hit == IF ic THEN c \in it.set \/ LowerCh(c) \in it.set
                          \/ UpperCh(c) \in it.set
               ELSE c \in it.set
    IN  IF it.neg THEN ~hit ELSE hit

\* how many characters from offset p on are in the class, at most it.max
ClsRun(it, s, p, ic) ==
    LET cap == IF it.max >= 0 /\ it.max < Len(s) - p THEN it.max
               ELSE Len(s) - p
    IN  CHOOSE n \in 0..cap :
            /\ \A i \in 1..n : ClsHas(it, s[p + i], ic)
            /\ n = cap \/ ~ClsHas(it, s[p + n + 1], ic)

\* the literal it.s stands at offset p
LitAt(it, s, p, ic) ==
    /\ p + Len(it.s) <= Len(s)
    /\ \A i \in 1..Len(it.s) :
          IF ic THEN LowerCh(s[p + i]) = LowerCh(it.s[i])
          ELSE s[p + i] = it.s[i]

IsWordAt(s, i) == i >= 1 /\ i <= Len(s) /\ s[i] \in WordChar
AtWordBoundary(s, p) == IsWordAt(s, p) # IsWordAt(s, p + 1)
\* $ without MULTILINE: the end, or just before a final line break
AtEnd(s, p) == p = Len(s) \/ (p = Len(s) - 1 /\ s[Len(s)] = "\n")

\* The match of pattern r at offset p of s, as the backtracking matcher finds
\* it: [ok, e (end offset), g (the groups' spans)].
RECURSIVE ReAt(_, _, _, _, _)
RECURSIVE ReTry(_, _, _, _, _, _, _, _)
RECURSIVE ReAlt(_, _, _, _, _, _, _)
ReAt(r, s, p, g, ic) ==
    IF r = <<>> THEN [ok |-> TRUE, b |-> p, e |-> p, g |-> g]
    ELSE LET it == Head(r)
             rest == Tail(r)
         IN CASE it.t = "lit" ->
                   IF LitAt(it, s, p, ic)
                   THEN ReAt(rest, s, p + Len(it.s), g, ic)
                   ELSE NoMatch
              [] it.t = "cls" ->
                   LET run == ClsRun(it, s, p, ic)
                   IN  IF run < it.min THEN NoMatch
                       ELSE IF it.lazy
                            THEN ReTry(rest, s, p, it.min, run, 1, g, ic)
                            ELSE ReTry(rest, s, p, run, it.min, -1, g, ic)
              [] it.t = "alt" -> ReAlt(it.alts, 1, rest, s, p, g, ic)
              [] it.t = "wb" ->
                   IF AtWordBoundary(s, p) THEN ReAt(rest, s, p, g, ic)
                   ELSE NoMatch
              [] it.t = "bol" ->
                   IF p = 0 THEN ReAt(rest, s, p, g, ic) ELSE NoMatch
              [] it.t = "eol" ->
                   IF AtEnd(s, p) THEN ReAt(rest, s, p, g, ic) ELSE NoMatch
              [] it.t = "open" ->
                   ReAt(rest, s, p, [g EXCEPT ![it.g] = <<p, -1>>], ic)
              [] it.t = "close" ->
                   ReAt(rest, s, p, [g EXCEPT ![it.g] = <<g[it.g][1], p>>], ic)
              [] it.t = "la" ->
                   IF ReAt(it.r, s, p, g, ic).ok THEN ReAt(rest, s, p, g, ic)
                   ELSE NoMatch
              [] it.t = "nlb" ->
                   IF p >= it.width
                      /\ Bind([m \in {ReAt(it.r, s, p - it.width, g, ic)} |->
                             m.ok /\ m.e = p])
                   THEN NoMatch
                   ELSE ReAt(rest, s, p, g, ic)
\* the repetition counts n, n + step, ..., last in turn
ReTry(rest, s, p, n, last, step, g, ic) ==
    Bind([m \in {ReAt(rest, s, p + n, g, ic)} |->
        IF m.ok THEN m
        ELSE IF n = last THEN NoMatch
        ELSE ReTry(rest, s, p, n + step, last, step, g, ic)])
\* the alternatives k, k + 1, ... in turn
ReAlt(alts, k, rest, s, p, g, ic) ==
    IF k > Len(alts) THEN NoMatch
    ELSE Bind([m \in {ReAt(alts[k] \o rest, s, p, g, ic)} |->
             IF m.ok THEN m ELSE ReAlt(alts, k + 1, rest, s, p, g, ic)])

\* re.match(r, s)
ReMatch(r, s, ic) == ReAt(r, s, 0, NoGroups, ic)

\* re.search(r, s) from offset p on: the match at the least offset that
\* has one
ReSearchFrom(r, s, p, ic) ==
    Bind([at \in {[q \in p..Len(s) |-> ReAt(r, s, q, NoGroups, ic)]} |->
    Bind([starts \in {{q \in p..Len(s) : at[q].ok}} |->
        IF starts = {} THEN NoMatch
        ELSE LET b == CHOOSE q \in starts : \A q2 \in starts : q <= q2
             IN  [at[b] EXCEPT !.b = b]])])
ReSearch(r, s, ic) == ReSearchFrom(r, s, 0, ic)

\* match.group(n); group 0 is the whole match.  None for a group that did
\* not take part.
GroupOf(m, s, n) ==
    IF n = 0 THEN Slice(s, m.b, m.e)
    ELSE IF m.g[n][2] < 0 THEN None
    ELSE Slice(s, m.g[n][1], m.g[n][2])

\* pattern.findall(s) for a pattern with one group: the group of each of
\* the successive non-overlapping matches
RECURSIVE ReFindAllFrom(_, _, _, _)
ReFindAllFrom(r, s, p, ic) ==
    Bind([m \in {ReSearchFrom(r, s, p, ic)} |->
        IF ~m.ok THEN <<>>
        ELSE <<GroupOf(m, s, 1)>>
             \o ReFindAllFrom(r, s, IF m.e > m.b THEN m.e ELSE m.e + 1, ic)])
ReFindAll(r, s, ic) == ReFindAllFrom(r, s, 0, ic)

\* re.sub(r, repl, s) for a literal repl
RECURSIVE ReSubFrom(_, _, _, _, _)
ReSubFrom(r, repl, s, p, ic) ==
    Bind([m \in {ReSearchFrom(r, s, p, ic)} |->
        IF ~m.ok THEN Slice(s, p, Len(s))
        ELSE IF m.e > m.b
             THEN Slice(s, p, m.b) \o repl \o ReSubFrom(r, repl, s, m.e, ic)
             ELSE Slice(s, p, m.b) \o repl
                  \o (IF m.b < Len(s)
                      THEN <<s[m.b + 1]>> \o ReSubFrom(r, repl, s, m.b + 1, ic)
                      ELSE <<>>)])
ReSub(r, repl, s, ic) == ReSubFrom(r, repl, s, 0, ic)


-----------------------------------------------------------------------------
(* classifier.py                                                           *)

AADHAAR_KEYWORDS ==
    <<S("aadhaar"),
      <<"u0906", "u0927", "u093E", "u0930">>,
      S("uidai"),
      S("unique identification"),
      S("enrolment no"),
      S("enrollment no"),
      S("your aadhaar no"),
      <<"u0906", "u092A", "u0932", "u093E">> \o S(" ") \o <<"u0906", "u0927", "u093E", "u0930">>,
      <<"u092D", "u093E", "u0930", "u0924", "u0940", "u092F">> \o S(" ") \o <<"u0935", "u093F", "u0936", "u093F", "u0937", "u094D", "u091F">>,
      S("vtc:"),
      S("pin code"),
      S("vid"),
      <<"u0928", "u094B", "u0902", "u0926", "u0923", "u0940">> \o S(" ") \o <<"u0915", "u094D", "u0930", "u092E", "u093E", "u0902", "u0915">>,
      <<"u092E", "u093E", "u091D", "u0947">> \o S(" ") \o <<"u0906", "u0927", "u093E", "u0930">>,
      <<"u092E", "u093E", "u0930", "u094D", "u091C", "u0940">> \o S(" ") \o <<"u0913", "u0933", "u0916">>,
      S("generation date"),
      S("download date")>>
PAN_KEYWORDS ==
    <<S("permanent account number"),
      S("income tax department"),
      <<"u0906", "u092F", "u0915", "u0930">> \o S(" ") \o <<"u0935", "u093F", "u092D", "u093E", "u0917">>,
      S("pan card"),
      S("govt. of india"),
      S("father's name"),
      <<"u092A", "u093F", "u0924", "u093E">> \o S(" ") \o <<"u0915", "u093E">> \o S(" ") \o <<"u0928", "u093E", "u092E">>>>
VOTER_ID_KEYWORDS ==
    <<S("election commission"),
      S("voter"),
      S("elector"),
      S("epic"),
      <<"u0928", "u093F", "u0930", "u094D", "u0935", "u093E", "u091A", "u0928">>,
      <<"u092E", "u0924", "u0926", "u093E", "u0924", "u093E">>,
      S("elector photo identity"),
      <<"u092D", "u093E", "u0930", "u0924">> \o S(" ") \o <<"u0928", "u093F", "u0930", "u094D", "u0935", "u093E", "u091A", "u0928">> \o S(" ") \o <<"u0906", "u092F", "u094B", "u0917">>,
      <<"u092B", "u094B", "u091F", "u094B">> \o S(" ") \o <<"u092A", "u0939", "u091A", "u093E", "u0928">> \o S(" ") \o <<"u092A", "u0924", "u094D", "u0930">>>>
DRIVING_LICENSE_KEYWORDS ==
    <<S("driving licence"),
      S("driving license"),
      S("transport"),
      S("motor vehicle"),
      S("dl no"),
      S("licence no"),
      S("dl_no"),
      S("valid till"),
      S("class of vehicle"),
      S("authorisation to drive"),
      S("issuing authority"),
      S("state motor"),
      S("rto"),
      S("mcwg"),
      S("lmv"),
      S("tal:"),
      S("dist:"),
      S("dld"),
      S("form 7")>>
HANDWRITTEN_KEYWORDS ==
    <<S("first name"),
      S("middle name"),
      S("surname"),
      S("last name"),
      S("father name"),
      S("father's name"),
      S("mother name"),
      S("mother's name"),
      S("date of birth"),
      S("dob"),
      S("d.o.b"),
      S("birth date"),
      S("address"),
      S("city"),
      S("state"),
      S("pin code"),
      S("pincode"),
      S("postal code"),
      S("gender"),
      S("sex"),
      S("male"),
      S("female"),
      S("mobile"),
      S("phone"),
      S("contact"),
      S("email"),
      S("signature"),
      S("applicant"),
      S("full name"),
      S("age"),
      S("occupation"),
      S("qualification"),
      S("education"),
      S("marital status"),
      S("nationality"),
      S("religion"),
      S("blood group"),
      S("place of birth")>>

\* The ID patterns of classifier.py (no capture group).
ClassifierPAN_PATTERN ==
    <<WB, Cls(AsciiUpper, 5, 5), Cls(AsciiDigit, 4, 4), One(AsciiUpper), WB>>
ClassifierAADHAAR_PATTERN ==
    <<WB, Cls(UniDigit, 4, 4), Opt(Whitespace), Cls(UniDigit, 4, 4),
      Opt(Whitespace), Cls(UniDigit, 4, 4), WB>>
ClassifierVOTER_ID_PATTERN ==
    <<WB, Cls(AsciiUpper, 3, 3), Cls(AsciiDigit, 7, 7), WB>>
DL_PATTERN ==
    <<WB, Cls(AsciiUpper, 2, 2), Star(Whitespace), Cls(UniDigit, 2, 2),
      Star(Whitespace), Cls(UniDigit, 8, 11), WB>>

\* the scores dictionary, in its insertion order
TypeOrder == <<"AADHAAR", "PAN", "VOTER_ID", "DRIVING_LICENSE", "HANDWRITTEN">>
Types == Range(TypeOrder)
ZeroScores == [t \in Types |-> 0]

\* for keyword in KEYWORDS: if keyword.lower() in text_lower: score += 1
KeywordHits(keywords, text_lower) ==
    Count(keywords, LAMBDA k : Contains(text_lower, Lower(k)))

KeywordScores(txt) ==
    LET text_lower == Lower(txt)
    IN  [t \in Types |->
           CASE t = "AADHAAR" -> KeywordHits(AADHAAR_KEYWORDS, text_lower)
             [] t = "PAN" -> KeywordHits(PAN_KEYWORDS, text_lower)
             [] t = "VOTER_ID" -> KeywordHits(VOTER_ID_KEYWORDS, text_lower)
             [] t = "DRIVING_LICENSE" ->
                  KeywordHits(DRIVING_LICENSE_KEYWORDS, text_lower)
             [] t = "HANDWRITTEN" ->
                  KeywordHits(HANDWRITTEN_KEYWORDS, text_lower)]

HasPanPattern(txt) == ReSearch(ClassifierPAN_PATTERN, Upper(txt), FALSE).ok
HasAadhaarPattern(txt) == ReSearch(ClassifierAADHAAR_PATTERN, txt, FALSE).ok
HasVoterPattern(txt) ==
    ReSearch(ClassifierVOTER_ID_PATTERN, Upper(txt), FALSE).ok
HasDlPattern(txt) ==
    ReSearch(DL_PATTERN, RemoveChar(Upper(txt), " "), FALSE).ok

\* PatternScores with the PAN bonus left out
PatternScoresNoPan(sc, txt) ==
    [t \in Types |->
       CASE t = "AADHAAR" -> sc[t] + (IF HasAadhaarPattern(txt) THEN 2 ELSE 0)
         [] t = "VOTER_ID" -> sc[t] + (IF HasVoterPattern(txt) THEN 3 ELSE 0)
         [] t = "DRIVING_LICENSE" ->
              sc[t] + (IF HasDlPattern(txt) THEN 3 ELSE 0)
         [] OTHER -> sc[t]]

\* the pattern bonuses
PatternScores(sc, txt) ==
    [t \in Types |->
       CASE t = "PAN" -> sc[t] + (IF HasPanPattern(txt) THEN 3 ELSE 0)
         [] t = "AADHAAR" -> sc[t] + (IF HasAadhaarPattern(txt) THEN 2 ELSE 0)
         [] t = "VOTER_ID" -> sc[t] + (IF HasVoterPattern(txt) THEN 3 ELSE 0)
         [] t = "DRIVING_LICENSE" ->
              sc[t] + (IF HasDlPattern(txt) THEN 3 ELSE 0)
         [] OTHER -> sc[t]]

has_official_id(txt) ==
    \/ HasPanPattern(txt)
    \/ HasAadhaarPattern(txt)
    \/ HasVoterPattern(txt)
    \/ HasDlPattern(txt)

\* HandwrittenScores with the boost given whether or not an official ID
\* pattern is present
HandwrittenScoresAlwaysBoost(sc, txt) ==
    IF sc["HANDWRITTEN"] >= 3 THEN [sc EXCEPT !["HANDWRITTEN"] = @ + 2] ELSE sc

\* HandwrittenScores with the penalty taken from a score of any size
HandwrittenScoresPenaltyAlways(sc, txt) ==
    IF has_official_id(txt) THEN [sc EXCEPT !["HANDWRITTEN"] = @ - 2]
    ELSE IF sc["HANDWRITTEN"] >= 3 THEN [sc EXCEPT !["HANDWRITTEN"] = @ + 2]
    ELSE sc

\* the boost or the penalty of the handwritten score
HandwrittenScores(sc, txt) ==
    IF sc["HANDWRITTEN"] >= 3
    THEN IF ~has_official_id(txt)
         THEN [sc EXCEPT !["HANDWRITTEN"] = @ + 2]
         ELSE [sc EXCEPT !["HANDWRITTEN"] = @ - 2]
    ELSE sc

\* max(scores.values())
MaxScore(sc) == CHOOSE m \in {sc[t] : t \in Types} : \A t \in Types : sc[t] <= m

\* ArgMax keeping the last key with the greatest value instead of the first
ArgMaxLast(sc) ==
    TypeOrder[CHOOSE i \in 1..Len(TypeOrder) :
                /\ sc[TypeOrder[i]] = MaxScore(sc)
                /\ \A j \in (i + 1)..Len(TypeOrder) :
                      sc[TypeOrder[j]] # MaxScore(sc)]

\* max(scores, key=scores.get): the first key, in insertion order, whose
\* value is the greatest
ArgMax(sc) ==
    TypeOrder[CHOOSE i \in 1..Len(TypeOrder) :
                /\ sc[TypeOrder[i]] = MaxScore(sc)
                /\ \A j \in 1..(i - 1) : sc[TypeOrder[j]] # MaxScore(sc)]

\* max_possible without the allowance for the pattern bonus and the boost
max_possible_of_keywords ==
    [t \in Types |->
       CASE t = "AADHAAR" -> Len(AADHAAR_KEYWORDS)
         [] t = "PAN" -> Len(PAN_KEYWORDS)
         [] t = "VOTER_ID" -> Len(VOTER_ID_KEYWORDS)
         [] t = "DRIVING_LICENSE" -> Len(DRIVING_LICENSE_KEYWORDS)
         [] t = "HANDWRITTEN" -> Len(HANDWRITTEN_KEYWORDS)]

max_possible ==
    [t \in Types |->
       CASE t = "AADHAAR" -> Len(AADHAAR_KEYWORDS) + 2
         [] t = "PAN" -> Len(PAN_KEYWORDS) + 3
         [] t = "VOTER_ID" -> Len(VOTER_ID_KEYWORDS) + 3
         [] t = "DRIVING_LICENSE" -> Len(DRIVING_LICENSE_KEYWORDS) + 3
         [] t = "HANDWRITTEN" -> Len(HANDWRITTEN_KEYWORDS) + 2]

\* Confidence as a percentage instead of a fraction of 1
ConfidencePercent(max_score, possible) ==
    IF max_score <= possible THEN [num |-> 100 * max_score, den |-> possible]
    ELSE [num |-> 100, den |-> 1]

\* A confidence is the fraction num / den; min(max_score / max_possible, 1.0)
Confidence(max_score, possible) ==
    IF max_score <= possible THEN [num |-> max_score, den |-> possible]
    ELSE [num |-> 1, den |-> 1]

NoResult == [type |-> "", num |-> 0, den |-> 1]

\* Classification without the early return for a maximum of 0
ClassificationNoUnknown(sc) ==
    LET t == ArgMax(sc)
    IN
    Bind([c \in {Confidence(MaxScore(sc), max_possible[t])} |->
        [type |-> t, num |-> c.num, den |-> c.den]])

\* the return statements of classify_document
Classification(sc) ==
    IF MaxScore(sc) = 0 THEN [type |-> "UNKNOWN", num |-> 0, den |-> 1]
    ELSE LET t == ArgMax(sc)
         IN
         Bind([c \in {Confidence(MaxScore(sc), max_possible[t])} |->
             [type |-> t, num |-> c.num, den |-> c.den]])

\* text_lower = text.lower(): an AttributeError for a value without the
\* methods of str (for bytes, a TypeError at `keyword.lower() in text_lower`)
ClassifyRaises(x) == ~IsStr(x)

\* the exception leaves classify_document
RaiseInClassify ==
    /\ pc = "classify"
    /\ ClassifyRaises(text)
    /\ pc' = "raised"
    /\ UNCHANGED <<text, doc_type, scores, result, info, calls, returned>>

\* classify_document, statement by statement
CountKeywords ==
    /\ pc = "classify"
    /\ ~ClassifyRaises(text)
    /\ scores' = KeywordScores(text)
    /\ pc' = "keywords"
    /\ UNCHANGED <<text, doc_type, result, info, calls, returned>>

PatternBonus ==
    /\ pc = "keywords"
    /\ scores' = PatternScores(scores, text)
    /\ pc' = "patterns"
    /\ UNCHANGED <<text, doc_type, result, info, calls, returned>>

HandwrittenAdjust ==
    /\ pc = "patterns"
    /\ scores' = HandwrittenScores(scores, text)
    /\ pc' = "adjusted"
    /\ UNCHANGED <<text, doc_type, result, info, calls, returned>>

Decide ==
    /\ pc = "adjusted"
    /\ result' = Classification(scores)
    /\ pc' = "classified"
    /\ UNCHANGED <<text, doc_type, scores, info, calls, returned>>

-----------------------------------------------------------------------------
(* Inputs                                                                  *)

\* the texts of one to n lines drawn from a set of lines
RECURSIVE TextsOf(_, _)
TextsOf(lines, n) ==
    IF n = 0 THEN {}
    ELSE lines \cup TextsOf(lines, n - 1)
         \cup {t \o <<"\n">> \o l : t \in TextsOf(lines, n - 1), l \in lines}

MaxLines == 3

ClassifyLines ==
    {S("xyz"),
     S("ABCDE1234F"),
     S("1234 5678 9012"),
     S("ABC1234567"),
     S("MH12 20010149313"),
     S("Gender: Female"),
     S("Date of Birth / Address"),
     S("Father's Name"),
     S("Pin Code")}

NoInfo == <<>>
NoCalls == <<>>
NoReturned == {}

InitClassify ==
    /\ text \in TextsOf(ClassifyLines, MaxLines)
    /\ doc_type = ""
    /\ pc = "classify"
    /\ scores = ZeroScores
    /\ result = NoResult
    /\ info = NoInfo
    /\ calls = NoCalls
    /\ returned = NoReturned

NextClassify == CountKeywords \/ PatternBonus \/ HandwrittenAdjust \/ Decide

SpecClassify == InitClassify /\ [][NextClassify]_vars


-----------------------------------------------------------------------------
(* Claims about classify_document                                          *)

Classified == pc = "classified"

\* C1: classify_document returns UNKNOWN if and only if the final score of
\* every one of the five types is zero, and then the confidence is 0.0; when
\* some type has a non-zero score the returned type is one of the five and
\* the confidence is greater than 0.
C1_UnknownIffAllZero ==
    Classified =>
        /\ (result.type = "UNKNOWN") <=> (\A t \in Types : scores[t] = 0)
        /\ (result.type = "UNKNOWN") => (result.num = 0)
        /\ (\E t \in Types : scores[t] # 0) =>
               (result.type \in Types /\ result.num > 0 /\ result.den > 0)
\* a text without any signal was classified, as UNKNOWN with confidence 0
C1_Witness ==
    /\ Classified
    /\ result.type = "UNKNOWN"
    /\ \A t \in Types : scores[t] = 0

\* C2: the confidence returned by classify_document lies in [0.0, 1.0].
C2_ConfidenceInUnitInterval ==
    Classified => (result.den > 0 /\ 0 <= result.num /\ result.num <= result.den)
\* a text was classified as one of the five types, with a confidence
\* strictly between 0 and 1
C2_Witness ==
    /\ Classified
    /\ result.type \in Types
    /\ 0 < result.num
    /\ result.num < result.den

\* C3: the returned type has a score equal to the maximum over all five,
\* and among the types that share the maximum it is the first in the order
\* AADHAAR, PAN, VOTER_ID, DRIVING_LICENSE, HANDWRITTEN.
C3_FirstMaximumWins ==
    (Classified /\ result.type # "UNKNOWN") =>
        \E i \in 1..Len(TypeOrder) :
            /\ result.type = TypeOrder[i]
            /\ \A t \in Types : scores[t] <= scores[result.type]
            /\ \A j \in 1..(i - 1) : scores[TypeOrder[j]] < scores[result.type]
\* a text on which two types share the non-zero maximum was classified
C3_Witness ==
    /\ Classified
    /\ \E t1, t2 \in Types :
          /\ t1 # t2
          /\ scores[t1] = scores[t2]
          /\ scores[t1] > 0
          /\ \A t \in Types : scores[t] <= scores[t1]

C5_PanTokenAlone ==
    ( /\ Classified
      /\ HasPanPattern(text)
      /\ \A t \in Types \ {"PAN"} : KeywordScores(text)[t] = 0
      /\ ~HasAadhaarPattern(text)
      /\ ~HasVoterPattern(text)
      /\ ~HasDlPattern(text) )
    => (result.type = "PAN" /\ result.num > 0)
\* such a text was classified
C5_Witness ==
    /\ Classified
    /\ HasPanPattern(text)
    /\ \A t \in Types \ {"PAN"} : KeywordScores(text)[t] = 0
    /\ ~HasAadhaarPattern(text)
    /\ ~HasVoterPattern(text)
    /\ ~HasDlPattern(text)

-----------------------------------------------------------------------------
(* extractor.py: helper functions and patterns                             *)

\* A dictionary with string values is a function from its keys; d[k] = v
Put(d, k, v) == [x \in DOMAIN d \cup {k} |-> IF x = k THEN v ELSE d[x]]
\* if v: d[k] = v
PutIf(d, k, v) == IF Truthy(v) THEN Put(d, k, v) ELSE d
Has(d, k) == k \in DOMAIN d

\* any(w in s for w in words)
AnyIn(words, s) == \E k \in DOMAIN words : Contains(s, words[k])
\* sum(1 for c in s if c in set)
CountIn(s, set) == Cardinality({i \in DOMAIN s : s[i] \in set})
Max(a, b) == IF a >= b THEN a ELSE b
Min(a, b) == IF a <= b THEN a ELSE b

ArabicDigits == S("0123456789")
HINDI_TO_ARABIC ==
    [c \in DevaDigit |-> ArabicDigits[CHOOSE k \in 1..10 : DevaDigits[k] = c]]
convert_hindi_numerals(s) ==
    [i \in 1..Len(s) |-> IF s[i] \in DevaDigit THEN HINDI_TO_ARABIC[s[i]] ELSE s[i]]

\* re.sub(r'\s+', ' ', s)
NormalizeSpaces(s) == ReSub(<<Plus(Whitespace)>>, <<" ">>, s, FALSE)
clean_text_for_matching(s) == NormalizeSpaces(convert_hindi_numerals(s))

is_hindi_text(s) ==
    LET hindi_chars == CountIn(s, Devanagari)
        alpha_chars == CountIn(s, AsciiLetter \cup DevaLetter)
    IN  alpha_chars # 0 /\ 2 * hindi_chars > alpha_chars

extract_english_only(s) ==
    Join(<<" ">>, Words(SelectSeq(s, LAMBDA c : c \notin Devanagari)))
extract_hindi_only(s) ==
    Join(<<" ">>,
         Words(SelectSeq(s, LAMBDA c : c \in Devanagari \cup Whitespace)))

looks_like_hindi_name(s) ==
    Bind([t \in {Strip(extract_hindi_only(s))} |->
        /\ Len(t) >= 2
        /\ Len(Words(t)) >= 1
        /\ Len(Words(t)) <= 6])

\* alpha_chars / max(len(text), 1) > 0.85
looks_like_name(s) ==
    Bind([t \in {Strip(extract_english_only(s))} |->
    LET alpha_chars == CountIn(t, AsciiLetter \cup DevaLetter \cup Whitespace)
    IN  /\ Len(t) >= 3
        /\ Len(Words(t)) >= 1
        /\ Len(Words(t)) <= 6
        /\ 100 * alpha_chars > 85 * Len(t)])

Visarga == "u0903"
D4 == Cls(UniDigit, 4, 4)
\* \d{4}\s?\d{4}\s?\d{4}
Digits12 == <<D4, Opt(Whitespace), D4, Opt(Whitespace), D4>>
\* \d{4}\s?\d{4}\s?\d{4}\s?\d{4}
Digits16 == Digits12 \o <<Opt(Whitespace), D4>>
DateSep == <<Star(Whitespace), One({"-", "/", "."}), Star(Whitespace)>>

DATE_PATTERN ==
    <<WB>> \o Group(1, <<Cls(UniDigit, 1, 2)>>) \o DateSep
    \o Group(2, <<Cls(UniDigit, 1, 2)>>) \o DateSep \o Group(3, <<D4>>)
    \o <<WB>>
AADHAAR_PATTERN == <<WB>> \o Group(1, Digits12) \o <<WB>>
VID_PATTERN == <<WB>> \o Group(1, Digits16) \o <<WB>>
PAN_PATTERN ==
    <<WB>>
    \o Group(1, <<Cls(AsciiUpper, 5, 5), Cls(AsciiDigit, 4, 4), One(AsciiUpper)>>)
    \o <<WB>>
VOTER_ID_PATTERN ==
    <<WB>> \o Group(1, <<Cls(AsciiUpper, 3, 3), Cls(AsciiDigit, 7, 7)>>)
    \o <<WB>>
PIN_PATTERN == <<WB>> \o Group(1, <<Cls(UniDigit, 6, 6)>>) \o <<WB>>
MOBILE_PATTERN ==
    <<WB>> \o Group(1, <<One({"6", "7", "8", "9"}), Cls(UniDigit, 9, 9)>>)
    \o <<WB>>

extract_date(s) ==
    Bind([cleaned \in {clean_text_for_matching(s)} |->
    Bind([m \in {ReSearch(DATE_PATTERN, cleaned, FALSE)} |->
        IF m.ok
        THEN GroupOf(m, cleaned, 1) \o <<"/">> \o GroupOf(m, cleaned, 2)
             \o <<"/">> \o GroupOf(m, cleaned, 3)
        ELSE None])])

\* the first group of the first of the patterns that matches s, None when
\* none does
RECURSIVE FirstGroup(_, _, _, _)
FirstGroup(patterns, k, s, ic) ==
    IF k > Len(patterns) THEN None
    ELSE Bind([m \in {ReSearch(patterns[k], s, ic)} |->
             IF m.ok THEN GroupOf(m, s, 1)
             ELSE FirstGroup(patterns, k + 1, s, ic)])

\* the removal of a word equal (with ci: case ignored) to the word before it
RECURSIVE DedupWords(_, _, _)
DedupWords(words, cleaned_words, ci) ==
    IF words = <<>> THEN cleaned_words
    ELSE LET word == Head(words)
             last == cleaned_words[Len(cleaned_words)]
         IN  IF \/ cleaned_words = <<>>
                \/ ci /\ Lower(word) # Lower(last)
                \/ ~ci /\ word # last
             THEN DedupWords(Tail(words), Append(cleaned_words, word), ci)
             ELSE DedupWords(Tail(words), cleaned_words, ci)
RemoveDuplicateWords(name) ==
    Join(<<" ">>, DedupWords(Words(name), <<>>, TRUE))
RemoveDuplicateWordsHindi(name) ==
    Join(<<" ">>, DedupWords(Words(name), <<>>, FALSE))

-----------------------------------------------------------------------------
(* extractor.py: extract_aadhaar                                           *)

Ws0 == Star(Whitespace)
Ws1 == Plus(Whitespace)
\* no\.?\s*:?\s*
NoColon == L("no") \o <<Opt({"."}), Ws0, Opt({":"}), Ws0>>

aadhaar_labels ==
    <<L("your") \o <<Ws1>> \o L("aadhaar") \o <<Ws1>> \o NoColon,
      L("aadhaar") \o <<Ws1>> \o NoColon,
      Lit(<<"u0906", "u0927", "u093E", "u0930">>) \o <<Ws1>> \o Lit(<<"u0915", "u094D", "u0930", "u092E", "u093E", "u0902", "u0915">>) \o <<Ws0, Opt({":"}), Ws0>>,
      Lit(<<"u0906", "u092A", "u0932", "u093E">>) \o <<Ws1>> \o Lit(<<"u0906", "u0927", "u093E", "u0930">>) \o <<Ws1>> \o Lit(<<"u0915", "u094D", "u0930", "u092E", "u093E", "u0902", "u0915">>)
        \o <<Ws0, Opt({":"}), Ws0>>>>

\* the labelled number as it is written, its spaces kept
RECURSIVE AadhaarByLabelAsWritten(_, _)
AadhaarByLabelAsWritten(text_clean, k) ==
    IF k > Len(aadhaar_labels) THEN None
    ELSE Bind([m \in {ReSearch(aadhaar_labels[k] \o Group(1, Digits12),
                               text_clean, TRUE)} |->
             IF m.ok THEN GroupOf(m, text_clean, 1)
             ELSE AadhaarByLabelAsWritten(text_clean, k + 1)])

\* Priority 1: the number that follows an Aadhaar label
RECURSIVE AadhaarByLabel(_, _)
AadhaarByLabel(text_clean, k) ==
    IF k > Len(aadhaar_labels) THEN None
    ELSE Bind([m \in {ReSearch(aadhaar_labels[k] \o Group(1, Digits12),
                               text_clean, TRUE)} |->
             IF m.ok THEN RemoveChar(GroupOf(m, text_clean, 1), " ")
             ELSE AadhaarByLabel(text_clean, k + 1)])

\* Priority 2: the first 12-digit match without 'vid' in the 20 characters
\* before its first occurrence.  (The set vid_numbers of the 16-digit
\* matches is computed by the code and never read.)
RECURSIVE AadhaarByShape(_, _)
AadhaarByShape(text_clean, all_12digit) ==
    IF all_12digit = <<>> THEN None
    ELSE LET num == Head(all_12digit)
             clean_num == RemoveChar(num, " ")
             num_pos == Find(text_clean, num)
             context_before ==
                 Lower(Slice(text_clean, Max(0, num_pos - 20), num_pos))
         IN  IF /\ Len(clean_num) = 12
                /\ num_pos # -1
                /\ ~Contains(context_before, S("vid"))
             THEN clean_num
             ELSE AadhaarByShape(text_clean, Tail(all_12digit))

AadhaarNumber(text_clean) ==
    Bind([labelled \in {AadhaarByLabel(text_clean, 1)} |->
        IF Truthy(labelled) THEN labelled
        ELSE AadhaarByShape(text_clean,
                            ReFindAll(AADHAAR_PATTERN, text_clean, FALSE))])

\* vid\s*:?\s*(\d{4}\s?\d{4}\s?\d{4}\s?\d{4})
VidLabelled == L("vid") \o <<Ws0, Opt({":"}), Ws0>> \o Group(1, Digits16)
AadhaarVid(text_clean) ==
    Bind([vid_match \in {ReSearch(VidLabelled, text_clean, TRUE)} |->
        IF vid_match.ok THEN RemoveChar(GroupOf(vid_match, text_clean, 1), " ")
        ELSE None])

\* (\d{4}/\d{5}/\d{5})
EnrolDigits ==
    Group(1, <<D4, One({"/"}), Cls(UniDigit, 5, 5), One({"/"}),
               Cls(UniDigit, 5, 5)>>)
enroll_patterns ==
    <<L("enrol") \o <<Maybe(L("ment")), Ws1>> \o NoColon \o EnrolDigits,
      Lit(<<"u0928", "u094B", "u0902", "u0926", "u0923", "u0940">>) \o <<Ws1>> \o Lit(<<"u0915", "u094D", "u0930", "u092E", "u093E", "u0902", "u0915">>) \o <<Ws0, Opt({":"}), Ws0>>
        \o EnrolDigits>>

\* (?:name|नाम)\s*[ः:]?\s*([A-Za-z][A-Za-z\s]+)
AadhaarNameLabel ==
    <<Alt(<<L("name"), Lit(<<"u0928", "u093E", "u092E">>)>>), Ws0, Opt({Visarga, ":"}), Ws0>>
    \o Group(1, <<One(AsciiLetter), Plus(AsciiLetter \cup Whitespace)>>)

SkipHindiLabels ==
    <<<<"u092D", "u093E", "u0930", "u0924">>, <<"u0938", "u0930", "u0915", "u093E", "u0930">>, <<"u0906", "u0927", "u093E", "u0930">>, <<"u0915", "u094D", "u0930", "u092E", "u093E", "u0902", "u0915">>, <<"u0928", "u094B", "u0902", "u0926", "u0923", "u0940">>, <<"u0935", "u093F", "u0936", "u093F", "u0937", "u094D", "u091F">>, <<"u0913", "u0933", "u0916">>, <<"u092A", "u094D", "u0930", "u093E", "u0927", "u093F", "u0915", "u0930", "u0923">>>>
SkipHindiLabelsMy == SkipHindiLabels \o <<<<"u092E", "u093E", "u091D", "u0947">>, <<"u092E", "u093E", "u091D", "u0940">>>>

\* Method 1: explicit name labels, over all lines
RECURSIVE AadhaarMethod1(_, _, _)
AadhaarMethod1(lines, i, acc) ==
    IF i > Len(lines) THEN acc
    ELSE LET line == lines[i]
         IN
         Bind([name_match \in {ReSearch(AadhaarNameLabel, line, TRUE)} |->
         Bind([potential_name \in {IF name_match.ok THEN Strip(GroupOf(name_match, line, 1)) ELSE None} |->
         Bind([hindi_part \in {extract_hindi_only(line)} |->
             AadhaarMethod1(lines, i + 1,
               [name |->
                  IF name_match.ok /\ ~Truthy(acc.name)
                     /\ looks_like_name(potential_name)
                  THEN Title(potential_name) ELSE acc.name,
                name_hindi |->
                  IF /\ hindi_part # <<>>
                     /\ looks_like_hindi_name(hindi_part)
                     /\ ~Truthy(acc.name_hindi)
                     /\ ~AnyIn(SkipHindiLabels, hindi_part)
                  THEN hindi_part ELSE acc.name_hindi,
                mobile |-> acc.mobile])])])])

\* ^\d*\s*to\b
ToMarker == <<Bol, Star(UniDigit), Ws0>> \o L("to") \o <<WB>>
IsToLine(line) ==
    Bind([line_stripped \in {Lower(Strip(line))} |->
        \/ line_stripped = S("to")
        \/ Len(line_stripped) >= 3 /\ SubSeq(line_stripped, 1, 3) = S("to ")
        \/ ReMatch(ToMarker, line_stripped, FALSE).ok])
\* the index of the first "To" line, 0 when there is none
ToIndex(lines) ==
    IF \E i \in DOMAIN lines : IsToLine(lines[i])
    THEN CHOOSE i \in DOMAIN lines :
            IsToLine(lines[i]) /\ \A j \in 1..(i - 1) : ~IsToLine(lines[j])
    ELSE 0

AfterToSkip ==
    <<S("download"), S("issue"), S("generation"), S("validity"),
      S("aadhaar no"), S("vid"), S("enrol"), S("unique"), S("government"),
      S("authority"), S("qr code"), S("dob"), S("date of birth"), S("male"),
      S("female")>>

\* Method 2: the lines j .. last after the "To" marker
RECURSIVE AadhaarMethod2(_, _, _, _)
AadhaarMethod2(lines, j, last, acc) ==
    IF j > last THEN acc
    ELSE Bind([line \in {Strip(lines[j])} |->
         LET has_hindi == is_hindi_text(line)
             is_label == AnyIn(AfterToSkip, Lower(line))
         IN
         Bind([mobile_match \in {ReSearch(MOBILE_PATTERN, line, FALSE)} |->
         Bind([mobile \in {IF mobile_match.ok THEN GroupOf(mobile_match, line, 1)
                           ELSE acc.mobile} |->
         Bind([hindi_part \in {extract_hindi_only(line)} |->
         LET english_text == extract_english_only(line)
         IN  IF line = <<>> \/ is_label
             THEN AadhaarMethod2(lines, j + 1, last, acc)
             ELSE IF mobile_match.ok /\ Strip(line) = mobile
             THEN AadhaarMethod2(lines, j + 1, last,
                                 [acc EXCEPT !.mobile = mobile])
             ELSE AadhaarMethod2(lines, j + 1, last,
                    [name |->
                       IF /\ english_text # <<>>
                          /\ looks_like_name(english_text)
                          /\ ~Truthy(acc.name)
                       THEN Title(english_text) ELSE acc.name,
                     name_hindi |->
                       IF /\ has_hindi
                          /\ ~Truthy(acc.name_hindi)
                          /\ hindi_part # <<>>
                          /\ looks_like_hindi_name(hindi_part)
                          /\ ~AnyIn(SkipHindiLabelsMy, hindi_part)
                       THEN hindi_part ELSE acc.name_hindi,
                     mobile |-> mobile])])])])])

Method3SkipWords ==
    <<S("government"), S("india"), S("authority"), S("aadhaar"), S("unique"),
      S("identification"), S("enrolment"), S("download"), S("generation"),
      S("validity"), S("male"), S("female"), S("dob"), S("date"), S("birth")>>

\* Method 3: an English name on any line, up to the first line that gives one
RECURSIVE AadhaarMethod3(_, _, _)
AadhaarMethod3(lines, i, acc) ==
    IF i > Len(lines) THEN acc
    ELSE LET line == lines[i]
         IN
         Bind([english_part \in {extract_english_only(line)} |->
         Bind([hindi_part \in {extract_hindi_only(line)} |->
         Bind([name \in {IF /\ english_part # <<>>
                            /\ looks_like_name(english_part)
                            /\ ~AnyIn(Method3SkipWords, Lower(english_part))
                         THEN Title(english_part) ELSE acc.name} |->
         Bind([name_hindi \in {
                      IF /\ hindi_part # <<>>
                         /\ looks_like_hindi_name(hindi_part)
                         /\ ~Truthy(acc.name_hindi)
                         /\ ~AnyIn(SkipHindiLabelsMy, hindi_part)
                      THEN hindi_part ELSE acc.name_hindi} |->
         LET next == [name |-> name, name_hindi |-> name_hindi,
                      mobile |-> acc.mobile]
         IN  IF Truthy(name) THEN next ELSE AadhaarMethod3(lines, i + 1, next)])])])])

\* name, name_hindi and mobile after the three methods
AadhaarNames(lines) ==
    Bind([m1 \in {AadhaarMethod1(lines, 1,
                    [name |-> None, name_hindi |-> None, mobile |-> None])} |->
    Bind([to_index \in {ToIndex(lines)} |->
    Bind([m2 \in {IF ~Truthy(m1.name) /\ to_index > 0
                  THEN AadhaarMethod2(lines, to_index + 1,
                                      Min(to_index + 14, Len(lines)), m1)
                  ELSE m1} |->
        IF ~Truthy(m2.name) THEN AadhaarMethod3(lines, 1, m2) ELSE m2])])])

\* the clean-up of the name: English only, duplicate words removed
AadhaarCleanName(name) ==
    IF Truthy(name)
    THEN RemoveDuplicateWords(Strip(extract_english_only(name)))
    ELSE name

AddressSkip ==
    <<S("download"), S("issue"), S("generation"), S("validity"), S("aadhaar"),
      S("vid"), S("unique"), S("government"), S("authority"), S("qr code"),
      S("dob"), S("date of birth"), S("male"), S("female"), S("enrol")>>
AddressSkipHindi ==
    <<<<"u0906", "u0927", "u093E", "u0930">>, <<"u0915", "u094D", "u0930", "u092E", "u093E", "u0902", "u0915">>, <<"u092E", "u093E", "u091D", "u0947">>, <<"u092E", "u093E", "u091D", "u0940">>, <<"u0913", "u0933", "u0916">>, <<"u0938", "u0930", "u0915", "u093E", "u0930">>>>
\* \d{4}\s*\d{4}\s*\d{4}
LooseDigits12 == <<D4, Ws0, D4, Ws0, D4>>

\* the address lines: those after the line that carries the name, up to
\* the Aadhaar number or six English lines
RECURSIVE AadhaarAddress(_, _, _, _, _)
AadhaarAddress(lines, j, search_name, name_hindi, acc) ==
    IF j > Len(lines) THEN acc
    ELSE LET line == lines[j]
         IN
         Bind([line_hindi \in {Strip(extract_hindi_only(line))} |->
         Bind([line_english \in {
                      StripChars(ReSub(MOBILE_PATTERN, <<>>,
                                       Strip(extract_english_only(line)), FALSE),
                                 {" ", ","})} |->
         LET address_lines ==
                 IF Len(line_english) > 2
                 THEN Append(acc.address_lines, line_english)
                 ELSE acc.address_lines
             address_hindi_lines ==
                 IF Len(line_hindi) > 2 /\ ~AnyIn(AddressSkipHindi, line_hindi)
                 THEN Append(acc.address_hindi_lines, line_hindi)
                 ELSE acc.address_hindi_lines
             next == [found_name |-> TRUE, address_lines |-> address_lines,
                      address_hindi_lines |-> address_hindi_lines]
         IN  IF \/ search_name # <<>>
                   /\ Contains(Lower(extract_english_only(line)), search_name)
                \/ Truthy(name_hindi) /\ Contains(line, name_hindi)
             THEN AadhaarAddress(lines, j + 1, search_name, name_hindi,
                                 [acc EXCEPT !.found_name = TRUE])
             ELSE IF ~acc.found_name \/ AnyIn(AddressSkip, Lower(line))
             THEN AadhaarAddress(lines, j + 1, search_name, name_hindi, acc)
             ELSE IF \/ Contains(Lower(line), S("your aadhaar"))
                     \/ ReSearch(LooseDigits12, line, FALSE).ok
             THEN acc
             ELSE IF Len(address_lines) >= 6 THEN next
             ELSE AadhaarAddress(lines, j + 1, search_name, name_hindi, next)])])

\* the date of the first line that has a birth label and a date
RECURSIVE AadhaarDob(_, _)
AadhaarDob(lines, i) ==
    IF i > Len(lines) THEN None
    ELSE LET line == lines[i]
         IN
         Bind([line_clean \in {clean_text_for_matching(line)} |->
         LET line_lower == Lower(line_clean)
         IN
         Bind([date \in {extract_date(line_clean)} |->
             IF /\ \/ Contains(line_lower, S("dob"))
                   \/ Contains(line_lower, S("date of birth"))
                   \/ Contains(line_lower, S("birth"))
                   \/ Contains(line, <<"u091C", "u0928", "u094D", "u092E">>)
                /\ Truthy(date)
             THEN date
             ELSE AadhaarDob(lines, i + 1)])])

\* \bfemale\b and \bmale\b
FemaleWord == <<WB>> \o L("female") \o <<WB>>
MaleWord == <<WB>> \o L("male") \o <<WB>>
gender_patterns ==
    <<[pattern |-> FemaleWord, gender |-> S("Female"), gender_hindi |-> <<"u092E", "u0939", "u093F", "u0932", "u093E">>],
      [pattern |-> MaleWord, gender |-> S("Male"), gender_hindi |-> <<"u092A", "u0941", "u0930", "u0941", "u0937">>],
      [pattern |-> Lit(<<"u092A", "u0941", "u0930", "u0941", "u0937">>), gender |-> S("Male"), gender_hindi |-> <<"u092A", "u0941", "u0930", "u0941", "u0937">>],
      [pattern |-> Lit(<<"u092E", "u0939", "u093F", "u0932", "u093E">>), gender |-> S("Female"), gender_hindi |-> <<"u092E", "u0939", "u093F", "u0932", "u093E">>],
      [pattern |-> <<WB, Opt({"/"}), Ws0>> \o L("female") \o <<WB>>,
       gender |-> S("Female"), gender_hindi |-> <<"u092E", "u0939", "u093F", "u0932", "u093E">>],
      [pattern |-> <<WB, Opt({"/"}), Ws0>> \o L("male") \o <<WB>>,
       gender |-> S("Male"), gender_hindi |-> <<"u092A", "u0941", "u0930", "u0941", "u0937">>]>>

\* the first pattern, in order, that is found in the text and, for Male,
\* is not accompanied by the word female; 0 when there is none
RECURSIVE AadhaarGenderFrom(_, _, _)
AadhaarGenderFrom(patterns, txt, k) ==
    IF k > Len(patterns) THEN 0
    ELSE IF /\ ReSearch(patterns[k].pattern, txt, TRUE).ok
            /\ \/ patterns[k].gender # S("Male")
               \/ ~ReSearch(FemaleWord, txt, TRUE).ok
         THEN k
         ELSE AadhaarGenderFrom(patterns, txt, k + 1)
AadhaarGender(txt) == AadhaarGenderFrom(gender_patterns, txt, 1)

extract_aadhaar(txt, lines) ==
    Bind([text_clean \in {clean_text_for_matching(txt)} |->
    Bind([aadhaar_number \in {AadhaarNumber(text_clean)} |->
    Bind([names \in {AadhaarNames(lines)} |->
    Bind([name \in {AadhaarCleanName(names.name)} |->
    LET search_name == IF Truthy(name) THEN Lower(name) ELSE <<>>
    IN
    Bind([addr \in {IF Truthy(name) \/ Truthy(names.name_hindi)
                    THEN AadhaarAddress(lines, 1, search_name, names.name_hindi,
                           [found_name |-> FALSE, address_lines |-> <<>>,
                            address_hindi_lines |-> <<>>])
                    ELSE [found_name |-> FALSE, address_lines |-> <<>>,
                          address_hindi_lines |-> <<>>]} |->
    LET full_address == Join(S(", "), addr.address_lines)
    IN
    Bind([pin_match \in {ReSearch(PIN_PATTERN, full_address, FALSE)} |->
    Bind([g \in {AadhaarGender(txt)} |->
    LET i1 == PutIf(PutIf(<<>>, "document_id", aadhaar_number),
                    "aadhaar_number", aadhaar_number)
        i2 == PutIf(i1, "vid", AadhaarVid(text_clean))
        i3 == PutIf(i2, "enrollment_no",
                    FirstGroup(enroll_patterns, 1, text_clean, TRUE))
        i4 == PutIf(i3, "name", name)
        i5 == PutIf(i4, "name_hindi", names.name_hindi)
    IN
    Bind([i6 \in {PutIf(i5, "mobile", names.mobile)} |->
    Bind([i7 \in {IF addr.address_lines # <<>>
                  THEN Put(IF pin_match.ok
                           THEN Put(i6, "pin_code",
                                    GroupOf(pin_match, full_address, 1))
                           ELSE i6,
                           "address", full_address)
                  ELSE i6} |->
    LET i8 == IF addr.address_hindi_lines # <<>>
              THEN Put(i7, "address_hindi",
                       Join(S(", "), addr.address_hindi_lines))
              ELSE i7
    IN
    Bind([i9 \in {PutIf(i8, "date_of_birth", AadhaarDob(lines, 1))} |->
        IF g = 0 THEN i9
        ELSE Put(Put(i9, "gender", gender_patterns[g].gender),
                 "gender_hindi", gender_patterns[g].gender_hindi)])])])])])])])])])])

\* lines = [line.strip() for line in text.split('\n') if line.strip()]
StrippedLines(txt) ==
    LET parts == SplitOn(txt, "\n")
        stripped == [i \in DOMAIN parts |-> Strip(parts[i])]
    IN  SelectSeq(stripped, LAMBDA l : l # <<>>)

-----------------------------------------------------------------------------
(* extractor.py: extract_pan                                               *)

\* re.sub(r'\b\d+\b', '', name), spaces normalized and stripped
clean_name_from_numbers(name) ==
    IF ~Truthy(name) THEN name
    ELSE Strip(NormalizeSpaces(
             ReSub(<<WB, Plus(UniDigit), WB>>, <<>>, name, FALSE)))

\* ([A-Z][A-Z\s]+), under IGNORECASE
UpperNameGroup == Group(1, <<One(AsciiUpper), Plus(AsciiUpper \cup Whitespace)>>)

\* ' '.join(w for w in s.split() if w not in skip)
WithoutWords(s, skip) ==
    Join(<<" ">>, SelectSeq(Words(s), LAMBDA w : w \notin Range(skip)))

PanHeaders ==
    <<S("income tax"), S("permanent account"), S("government"), S("dept"),
      S("signature"), <<"u0939", "u0938", "u094D", "u0924", "u093E", "u0915", "u094D", "u0937", "u0930">>>>

\* ('name' in line_lower or 'नाम' in line) and 'father' not in line_lower
\* and 'पिता' not in line
IsPanNameLine(line) ==
    /\ Contains(Lower(line), S("name")) \/ Contains(line, <<"u0928", "u093E", "u092E">>)
    /\ ~Contains(Lower(line), S("father"))
    /\ ~Contains(line, <<"u092A", "u093F", "u0924", "u093E">>)

\* father'?s?\s+name|पिता\s*(का\s*)?नाम
FatherLabel ==
    <<Alt(<<L("father") \o <<Opt({"'"}), Opt({"s"}), Ws1>> \o L("name"),
            Lit(<<"u092A", "u093F", "u0924", "u093E">>) \o <<Ws0, Maybe(Lit(<<"u0915", "u093E">>) \o <<Ws0>>)>> \o Lit(<<"u0928", "u093E", "u092E">>)>>)>>
IsPanFatherLine(line) == ReSearch(FatherLabel, Lower(line), FALSE).ok

pan_name_patterns ==
    <<<<Maybe(Lit(<<"u0928", "u093E", "u092E">>) \o <<Ws0, Opt({"/"}), Ws0>>)>> \o L("name")
        \o <<Ws0, Opt({Visarga, ":", "/"}), Ws0>> \o UpperNameGroup,
      L("name") \o <<Ws0, Opt({Visarga, ":", "/"}), Ws0>> \o UpperNameGroup>>
PanNameFalsePositives ==
    <<S("father"), S("signature"), S("card"), S("permanent"), S("account")>>

\* the inline name of a name line: the first pattern whose match is longer
\* than 2 and has no false-positive word; None when there is none
RECURSIVE PanInlineName(_, _)
PanInlineName(line, k) ==
    IF k > Len(pan_name_patterns) THEN None
    ELSE Bind([match \in {ReSearch(pan_name_patterns[k], line, TRUE)} |->
         Bind([potential_name \in {IF match.ok THEN Strip(GroupOf(match, line, 1)) ELSE None} |->
             IF /\ match.ok
                /\ Len(potential_name) > 2
                /\ ~AnyIn(PanNameFalsePositives, Lower(potential_name))
             THEN clean_name_from_numbers(Upper(potential_name))
             ELSE PanInlineName(line, k + 1)])])

father_inline_patterns ==
    <<L("father") \o <<Opt({"'"}), Opt({"s"}), Ws1>> \o L("name")
        \o <<Ws0, Opt({":", "/"}), Ws0>> \o UpperNameGroup,
      Lit(<<"u092A", "u093F", "u0924", "u093E">>) \o <<Ws0>> \o Lit(<<"u0915", "u093E">>) \o <<Ws0>> \o Lit(<<"u0928", "u093E", "u092E">>)
        \o <<Opt({Visarga, ":", "/"}), Ws0>> \o UpperNameGroup>>
PanFatherFalsePositives ==
    <<S("signature"), S("card"), S("date"), S("birth"), S("s name")>>

RECURSIVE PanInlineFather(_, _)
PanInlineFather(line, k) ==
    IF k > Len(father_inline_patterns) THEN None
    ELSE Bind([match \in {ReSearch(father_inline_patterns[k], line, TRUE)} |->
         Bind([potential \in {
                      IF match.ok
                      THEN clean_name_from_numbers(Strip(GroupOf(match, line, 1)))
                      ELSE None} |->
             IF /\ match.ok
                /\ Len(potential) > 2
                /\ ~AnyIn(PanFatherFalsePositives, Lower(potential))
             THEN Upper(potential)
             ELSE PanInlineFather(line, k + 1)])])

PanFatherStops ==
    <<S("date"), S("birth"), <<"u091C", "u0928", "u094D", "u092E">>, S("signature"), <<"u0939", "u0938", "u094D", "u0924", "u093E", "u0915", "u094D", "u0937", "u0930">>>>
PanSkipHindiName ==
    <<<<"u0928", "u093E", "u092E">>, <<"u0906", "u092F", "u0915", "u0930">>, <<"u0935", "u093F", "u092D", "u093E", "u0917">>, <<"u092D", "u093E", "u0930", "u0924">>, <<"u0938", "u0930", "u0915", "u093E", "u0930">>, <<"u0938", "u094D", "u0925", "u093E", "u092F", "u0940">>, <<"u0932", "u0947", "u0916", "u093E">>, <<"u0938", "u0902", "u0916", "u094D", "u092F", "u093E">>, <<"u0915", "u093E", "u0930", "u094D", "u0921">>>>
PanSkipHindiFather == <<<<"u092A", "u093F", "u0924", "u093E">>, <<"u0915", "u093E">>, <<"u0928", "u093E", "u092E">>, <<"u092D", "u093E", "u0930", "u0924">>, <<"u0938", "u0930", "u0915", "u093E", "u0930">>>>
PanSkipHindiFatherNext == PanSkipHindiFather \o <<<<"u091C", "u0928", "u094D", "u092E">>, <<"u0924", "u093E", "u0930", "u0940", "u0916">>>>

\* the lines i + j, j = 1, 2, 3, after a father label, up to a stop word:
\* the parts of the father's name and the Hindi father's name
RECURSIVE PanFatherNextLines(_, _, _, _)
PanFatherNextLines(lines, i, j, acc) ==
    IF j > 3 \/ i + j > Len(lines) THEN acc
    ELSE LET next_line == Strip(lines[i + j])
         IN
         Bind([english_part \in {
                      clean_name_from_numbers(extract_english_only(next_line))} |->
         LET hindi_part == extract_hindi_only(next_line)
         IN
         Bind([cleaned_hindi \in {WithoutWords(hindi_part, PanSkipHindiFatherNext)} |->
             IF AnyIn(PanFatherStops, Lower(next_line)) THEN acc
             ELSE PanFatherNextLines(lines, i, j + 1,
                    [parts |->
                       IF /\ Len(english_part) > 1
                          /\ ReMatch(<<Bol, One(AsciiUpper),
                                       Star(AsciiUpper \cup Whitespace), Eol>>,
                                     Upper(english_part), FALSE).ok
                       THEN Append(acc.parts, Upper(english_part))
                       ELSE acc.parts,
                     hindi |->
                       IF /\ ~Truthy(acc.hindi)
                          /\ hindi_part # <<>>
                          /\ cleaned_hindi # <<>>
                          /\ looks_like_hindi_name(cleaned_hindi)
                       THEN cleaned_hindi ELSE acc.hindi])])])

IsBirthLine(line) ==
    \/ Contains(Lower(line), S("date of birth"))
    \/ Contains(Lower(line), S("dob"))
    \/ Contains(Lower(line), S("birth"))
    \/ Contains(line, <<"u091C", "u0928", "u094D", "u092E">>)

\* the name branch of the loop over the lines
PanNameLine(lines, i, acc) ==
    LET line == lines[i]
    IN
    Bind([inline \in {PanInlineName(line, 1)} |->
    LET name1 == IF Truthy(inline) THEN inline ELSE acc.name
        hindi_part == extract_hindi_only(line)
        cleaned_hindi == WithoutWords(hindi_part, PanSkipHindiName)
    IN
    Bind([next_line \in {
                 IF i + 1 <= Len(lines)
                 THEN clean_name_from_numbers(Strip(extract_english_only(lines[i + 1])))
                 ELSE None} |->
        [acc EXCEPT
           !.name =
              IF /\ ~Truthy(name1)
                 /\ i + 1 <= Len(lines)
                 /\ next_line # <<>>
                 /\ looks_like_name(next_line)
                 /\ ~Contains(Lower(next_line), S("father"))
              THEN Upper(next_line) ELSE name1,
           !.name_hindi =
              IF /\ hindi_part # <<>>
                 /\ looks_like_hindi_name(hindi_part)
                 /\ ~Truthy(acc.name_hindi)
                 /\ Len(cleaned_hindi) > 2
              THEN cleaned_hindi ELSE acc.name_hindi]])])

\* the father's-name branch
PanFatherLine(lines, i, acc) ==
    LET line == lines[i]
    IN
    Bind([inline \in {PanInlineFather(line, 1)} |->
    LET father1 == IF Truthy(inline) THEN inline ELSE acc.father_name
        hindi_part == extract_hindi_only(line)
    IN
    Bind([cleaned_hindi \in {WithoutWords(hindi_part, PanSkipHindiFather)} |->
    Bind([hindi1 \in {IF /\ hindi_part # <<>>
                         /\ ~Truthy(acc.father_name_hindi)
                         /\ cleaned_hindi # <<>>
                         /\ looks_like_hindi_name(cleaned_hindi)
                      THEN cleaned_hindi ELSE acc.father_name_hindi} |->
    Bind([scan \in {PanFatherNextLines(lines, i, 1,
                                       [parts |-> <<>>, hindi |-> hindi1])} |->
        IF Truthy(father1)
        THEN [acc EXCEPT !.father_name = father1, !.father_name_hindi = hindi1]
        ELSE [acc EXCEPT
                !.father_name = IF scan.parts # <<>>
                                THEN Join(<<" ">>, scan.parts) ELSE father1,
                !.father_name_hindi = scan.hindi]])])])])

\* the date-of-birth branch
PanDobLine(lines, i, acc) ==
    Bind([date \in {extract_date(clean_text_for_matching(lines[i]))} |->
    Bind([next_date \in {IF i + 1 <= Len(lines) THEN extract_date(clean_text_for_matching(lines[i + 1])) ELSE None} |->
        IF Truthy(date) THEN [acc EXCEPT !.dob = date]
        ELSE IF i + 1 <= Len(lines) /\ Truthy(next_date)
        THEN [acc EXCEPT !.dob = next_date]
        ELSE acc])])

RECURSIVE PanLines(_, _, _)
PanLines(lines, i, acc) ==
    IF i > Len(lines) THEN acc
    ELSE LET line == lines[i]
         IN  PanLines(lines, i + 1,
               IF AnyIn(PanHeaders, Lower(line)) THEN acc
               ELSE IF IsPanNameLine(line) THEN PanNameLine(lines, i, acc)
               ELSE IF IsPanFatherLine(line) THEN PanFatherLine(lines, i, acc)
               ELSE IF IsBirthLine(line) THEN PanDobLine(lines, i, acc)
               ELSE acc)

\* name = re.sub(r'\s+', ' ', name).strip()
PanCleanName(name) == Strip(NormalizeSpaces(name))

extract_pan(txt, lines) ==
    LET text_upper == Upper(txt)
    IN
    Bind([pan_match \in {ReSearch(PAN_PATTERN, text_upper, FALSE)} |->
    Bind([pan \in {IF pan_match.ok THEN GroupOf(pan_match, text_upper, 1) ELSE None} |->
    Bind([f \in {PanLines(lines, 1,
                   [name |-> None, name_hindi |-> None, father_name |-> None,
                    father_name_hindi |-> None, dob |-> None])} |->
    LET i1 == IF pan_match.ok
              THEN Put(Put(<<>>, "document_id", pan), "pan_number", pan)
              ELSE <<>>
        i2 == IF Truthy(f.name) THEN Put(i1, "name", PanCleanName(f.name))
              ELSE i1
    IN
    Bind([i3 \in {PutIf(i2, "name_hindi", f.name_hindi)} |->
    LET i4 == IF Truthy(f.father_name)
              THEN Put(i3, "father_name", PanCleanName(f.father_name))
              ELSE i3
        i5 == PutIf(i4, "father_name_hindi", f.father_name_hindi)
    IN  PutIf(i5, "date_of_birth", f.dob)])])])])

-----------------------------------------------------------------------------
(* extractor.py: extract_voter_id                                          *)

VoterHeaders ==
    <<S("election commission"), S("elector photo"), S("identity card"),
      (<<"u092D", "u093E", "u0930", "u0924">> \o S(" ") \o <<"u0928", "u093F", "u0930", "u094D", "u0935", "u093E", "u091A", "u0928">>)>>
\* ([A-Za-z][A-Za-z\s]+)
NameGroup == Group(1, <<One(AsciiLetter), Plus(AsciiLetter \cup Whitespace)>>)
\* नाम\s*[ः:]\s*(.+)
VoterHindiName ==
    Lit(<<"u0928", "u093E", "u092E">>) \o <<Ws0, One({Visarga, ":"}), Ws0>> \o Group(1, <<Dot(1, -1)>>)
\* पिता\s*(?:का\s*)?नाम\s*[ः:]\s*(.+)
VoterHindiFather ==
    Lit(<<"u092A", "u093F", "u0924", "u093E">>) \o <<Ws0, Maybe(Lit(<<"u0915", "u093E">>) \o <<Ws0>>)>> \o VoterHindiName
\* name\s*:\s*([A-Za-z][A-Za-z\s]+)
VoterName == L("name") \o <<Ws0, One({":"}), Ws0>> \o NameGroup
\* father'?s?\s*name\s*:\s*([A-Za-z][A-Za-z\s]+)
VoterFather == L("father") \o <<Opt({"'"}), Opt({"s"}), Ws0>> \o VoterName

\* the Hindi part after a Hindi label, when it looks like a name
VoterHindiAfter(pattern, line) ==
    Bind([m \in {ReSearch(pattern, line, FALSE)} |->
    Bind([hindi_part \in {IF m.ok THEN extract_hindi_only(GroupOf(m, line, 1)) ELSE None} |->
        IF m.ok /\ hindi_part # <<>> /\ looks_like_hindi_name(hindi_part)
        THEN hindi_part ELSE None])])

\* First pass: the Hindi name and the Hindi father's name
RECURSIVE VoterFirstPass(_, _, _)
VoterFirstPass(lines, i, acc) ==
    IF i > Len(lines) THEN acc
    ELSE LET line == lines[i]
         IN
         Bind([nm \in {VoterHindiAfter(VoterHindiName, line)} |->
         Bind([fa \in {VoterHindiAfter(VoterHindiFather, line)} |->
             VoterFirstPass(lines, i + 1,
               IF AnyIn(VoterHeaders, Lower(line)) THEN acc
               ELSE [name_hindi |->
                       IF /\ Contains(line, <<"u0928", "u093E", "u092E">>)
                          /\ ~Contains(line, <<"u092A", "u093F", "u0924", "u093E">>)
                          /\ ~Truthy(acc.name_hindi)
                          /\ Truthy(nm)
                       THEN nm ELSE acc.name_hindi,
                     father_name_hindi |->
                       IF /\ Contains(line, <<"u092A", "u093F", "u0924", "u093E">>)
                          /\ Contains(line, <<"u0928", "u093E", "u092E">>)
                          /\ ~Truthy(acc.father_name_hindi)
                          /\ Truthy(fa)
                       THEN fa ELSE acc.father_name_hindi])])])

\* the English value after a label, when it looks like a name
VoterEnglishAfter(pattern, line) ==
    Bind([m \in {ReSearch(pattern, line, TRUE)} |->
    Bind([potential \in {IF m.ok THEN extract_english_only(Strip(GroupOf(m, line, 1))) ELSE None} |->
        IF m.ok /\ potential # <<>> /\ looks_like_name(potential)
        THEN Title(potential) ELSE None])])

\* the gender of a gender line, testing male before female
VoterGenderOfLineMaleFirst(line, acc) ==
    IF Contains(Lower(line), S("male")) \/ Contains(line, <<"u092A", "u0941", "u0930", "u0941", "u0937">>)
    THEN [acc EXCEPT !.gender = S("Male"), !.gender_hindi = <<"u092A", "u0941", "u0930", "u0941", "u0937">>]
    ELSE IF Contains(Lower(line), S("female")) \/ Contains(line, <<"u092E", "u0939", "u093F", "u0932", "u093E">>)
    THEN [acc EXCEPT !.gender = S("Female"), !.gender_hindi = <<"u092E", "u0939", "u093F", "u0932", "u093E">>]
    ELSE acc

\* the gender of a gender line: female is tested first
VoterGenderOfLine(line, acc) ==
    IF Contains(Lower(line), S("female")) \/ Contains(line, <<"u092E", "u0939", "u093F", "u0932", "u093E">>)
    THEN [acc EXCEPT !.gender = S("Female"), !.gender_hindi = <<"u092E", "u0939", "u093F", "u0932", "u093E">>]
    ELSE IF Contains(Lower(line), S("male")) \/ Contains(line, <<"u092A", "u0941", "u0930", "u0941", "u0937">>)
    THEN [acc EXCEPT !.gender = S("Male"), !.gender_hindi = <<"u092A", "u0941", "u0930", "u0941", "u0937">>]
    ELSE acc

\* the branch of the second pass that a line takes
VoterBranch(line) ==
    Bind([line_lower \in {Lower(line)} |->
        IF AnyIn(VoterHeaders, line_lower) THEN "header"
        ELSE IF Contains(line_lower, S("name"))
                /\ ~Contains(line_lower, S("father")) THEN "name"
        ELSE IF Contains(line_lower, S("father"))
                /\ Contains(line_lower, S("name")) THEN "father"
        ELSE IF \/ Contains(line_lower, S("date of birth"))
                \/ Contains(line_lower, S("dob"))
                \/ Contains(line_lower, S("birth"))
                \/ Contains(line_lower, S("age"))
                \/ Contains(line, <<"u091C", "u0928", "u094D", "u092E">>) THEN "dob"
        ELSE IF \/ Contains(line_lower, S("gender"))
                \/ Contains(line, <<"u0932", "u093F", "u0902", "u0917">>)
                \/ Contains(line_lower, S("sex")) THEN "gender"
        ELSE "other"])

\* Second pass: the English names, the date of birth and the gender
RECURSIVE VoterSecondPass(_, _, _)
VoterSecondPass(lines, i, acc) ==
    IF i > Len(lines) THEN acc
    ELSE LET line == lines[i]
         IN
         Bind([branch \in {VoterBranch(line)} |->
         Bind([nm \in {VoterEnglishAfter(VoterName, line)} |->
         Bind([fa \in {VoterEnglishAfter(VoterFather, line)} |->
         Bind([date \in {extract_date(clean_text_for_matching(line))} |->
             VoterSecondPass(lines, i + 1,
               CASE branch = "name" ->
                      IF ~Truthy(acc.name) /\ Truthy(nm)
                      THEN [acc EXCEPT !.name = nm] ELSE acc
                 [] branch = "father" ->
                      IF ~Truthy(acc.father_name) /\ Truthy(fa)
                      THEN [acc EXCEPT !.father_name = fa] ELSE acc
                 [] branch = "dob" ->
                      IF Truthy(date) THEN [acc EXCEPT !.date_of_birth = date]
                      ELSE acc
                 [] branch = "gender" -> VoterGenderOfLine(line, acc)
                 [] OTHER -> acc)])])])])

extract_voter_id(txt, lines) ==
    LET text_upper == Upper(txt)
    IN
    Bind([voter_id_match \in {ReSearch(VOTER_ID_PATTERN, text_upper, FALSE)} |->
    Bind([voter_id \in {IF voter_id_match.ok
                        THEN GroupOf(voter_id_match, text_upper, 1) ELSE None} |->
    Bind([h \in {VoterFirstPass(lines, 1,
                   [name_hindi |-> None, father_name_hindi |-> None])} |->
    Bind([e \in {VoterSecondPass(lines, 1,
                   [name |-> None, father_name |-> None, date_of_birth |-> None,
                    gender |-> None, gender_hindi |-> None])} |->
    LET i1 == IF voter_id_match.ok
              THEN Put(Put(<<>>, "document_id", voter_id), "voter_id", voter_id)
              ELSE <<>>
        i2 == PutIf(i1, "date_of_birth", e.date_of_birth)
        i3 == PutIf(PutIf(i2, "gender", e.gender), "gender_hindi", e.gender_hindi)
    IN
    Bind([i4 \in {IF Truthy(e.name)
                  THEN Put(i3, "name", RemoveDuplicateWords(e.name)) ELSE i3} |->
    Bind([i5 \in {IF Truthy(h.name_hindi)
                  THEN Put(i4, "name_hindi", RemoveDuplicateWordsHindi(h.name_hindi))
                  ELSE i4} |->
    Bind([i6 \in {IF Truthy(e.father_name)
                  THEN Put(i5, "father_name", RemoveDuplicateWords(e.father_name))
                  ELSE i5} |->
        IF Truthy(h.father_name_hindi)
        THEN Put(i6, "father_name_hindi",
                 RemoveDuplicateWordsHindi(h.father_name_hindi))
        ELSE i6])])])])])])])

-----------------------------------------------------------------------------
(* extractor.py: extract_driving_license                                   *)

\* [A-Z]{2}\s*\d{2}\s*\d{min,max}
DlShape(min, max) ==
    <<Cls(AsciiUpper, 2, 2), Ws0, Cls(UniDigit, 2, 2), Ws0,
      Cls(UniDigit, min, max)>>
DRIVING_LICENSE_PATTERN == <<WB>> \o Group(1, DlShape(4, 11)) \o <<WB>>
\* \b(MH\d{2}\s*\d{8,11})\b for a state code
DlOfState(state) ==
    <<WB>>
    \o Group(1, L(state) \o <<Cls(UniDigit, 2, 2), Ws0, Cls(UniDigit, 8, 11)>>)
    \o <<WB>>
\* [.\s:]*  and  [:\s]+
DotsColons == Star({".", ":"} \cup Whitespace)
Colons1 == Plus({":"} \cup Whitespace)
NoOrN0 == Alt(<<L("NO"), L("N0")>>)
dl_patterns ==
    <<L("DL") \o <<Star({"_"} \cup Whitespace), NoOrN0, DotsColons>>
        \o Group(1, DlShape(4, 11)),
      <<Maybe(L("DRIVING") \o <<Ws0>>), Alt(<<L("LICENCE"), L("LICENSE")>>),
        DotsColons, Maybe(<<NoOrN0>>), DotsColons>>
        \o Group(1, DlShape(4, 11)),
      <<WB>> \o Group(1, DlShape(9, 11)) \o <<WB>>,
      DlOfState("MH"),
      DlOfState("KA"),
      DlOfState("DL")>>

DlHeaders ==
    <<S("motor"), S("driving"), S("licence"), S("license"),
      S("union of india"), S("maharashtra state"), S("karnataka")>>

\* S\s*/?\s*O  and  D\s*/?\s*O
SlashO(c) == <<One({c}), Ws0, Opt({"/"}), Ws0, One({"O"})>>
\* SDAN|S\s*/?\s*O|D\s*/?\s*O|SON|DAUGHTER
SoMarker ==
    Alt(<<L("SDAN"), SlashO("S"), SlashO("D"), L("SON"), L("DAUGHTER")>>)
\* sdan|s[/\s]*o\b|d[/\s]*o\b|son\s*of|daughter
HasSo(line_lower) ==
    ReSearch(<<Alt(<<L("sdan"),
                     <<One({"s"}), Star({"/"} \cup Whitespace), One({"o"}), WB>>,
                     <<One({"d"}), Star({"/"} \cup Whitespace), One({"o"}), WB>>,
                     L("son") \o <<Ws0>> \o L("of"),
                     L("daughter")>>)>>,
             line_lower, FALSE).ok

\* NAME\s*[:\s]+([A-Z][A-Z\s]+?)(?=SDAN|S\s*/?\s*O|D\s*/?\s*O|SON|DAUGHTER)
DlNameBeforeSo ==
    L("NAME") \o <<Ws0, Colons1>>
    \o Group(1, <<One(AsciiUpper), LazyPlus(AsciiUpper \cup Whitespace)>>)
    \o <<LookAhead(<<SoMarker>>)>>
\* ...\s*(?:OF)?[:\s]*([A-Z][A-Z\s]+)
OfThenName(of) ==
    <<Ws0, of, Star({":"} \cup Whitespace)>> \o UpperNameGroup
dl_name_patterns ==
    <<L("NAME") \o <<Ws0, Colons1>> \o UpperNameGroup,
      L("NAME") \o <<Ws0, Plus({":"}), Ws0>> \o UpperNameGroup,
      L("NAME") \o <<Ws0, One({":"}), Ws0>> \o UpperNameGroup>>
OfOrOf == Alt(<<L("OF"), L("Of"), <<>>>>)
dl_father_patterns ==
    <<<<Alt(<<L("SDAN"), SlashO("S"), SlashO("D")>>)>> \o OfThenName(OfOrOf),
      <<Alt(<<L("SON"), L("DAUGHTER")>>)>> \o OfThenName(OfOrOf)>>

\* re.sub(r'\s*(ADD|TAL|DIST|DOB|AP).*$', '', potential).strip(); with
\* more: ADDRESS as a further alternative
CutAddressWords(potential, more) ==
    Strip(ReSub(<<Ws0,
                  Alt(<<L("ADD"), L("TAL"), L("DIST"), L("DOB"), L("AP")>>
                      \o (IF more THEN <<L("ADDRESS")>> ELSE <<>>)),
                  Dot(0, -1), Eol>>,
                <<>>, potential, TRUE))
\* re.sub(r'(SDAN|S\s*/?\s*O|D\s*/?\s*O|SON|DAUGHTER).*$', '', potential)
CutSoMarker(potential) ==
    Strip(ReSub(<<SoMarker, Dot(0, -1), Eol>>, <<>>, potential, TRUE))

\* a name of more than 2 characters, else None
LongEnough(potential) == IF Len(potential) > 2 THEN potential ELSE None

\* Case 1: the name and the father's name of a line with both markers
DlMergedLine(line_upper, acc) ==
    Bind([name_match \in {ReSearch(DlNameBeforeSo, line_upper, FALSE)} |->
    Bind([nm \in {LongEnough(clean_name_from_numbers(
                      Strip(GroupOf(name_match, line_upper, 1))))} |->
    Bind([father_match \in {
                 ReSearch(<<SoMarker>> \o OfThenName(Maybe(L("OF"))),
                          line_upper, FALSE)} |->
    Bind([fa \in {LongEnough(CutAddressWords(
                      clean_name_from_numbers(
                          Strip(GroupOf(father_match, line_upper, 1))), FALSE))} |->
        [acc EXCEPT
           !.name = IF name_match.ok /\ ~Truthy(acc.name) /\ Truthy(nm)
                    THEN nm ELSE acc.name,
           !.father_name =
               IF father_match.ok /\ ~Truthy(acc.father_name) /\ Truthy(fa)
               THEN fa ELSE acc.father_name]])])])])

\* the name after a NAME label, with the name cut at an S/O marker
DlNameCut(potential) ==
    LongEnough(CutSoMarker(clean_name_from_numbers(Strip(potential))))
\* Case 2, inline: the first pattern that gives a name
RECURSIVE DlInlineName(_, _)
DlInlineName(line_upper, k) ==
    IF k > Len(dl_name_patterns) THEN None
    ELSE Bind([name_match \in {ReSearch(dl_name_patterns[k], line_upper, FALSE)} |->
         Bind([potential \in {IF name_match.ok THEN DlNameCut(GroupOf(name_match, line_upper, 1)) ELSE None} |->
             IF name_match.ok /\ Truthy(potential) THEN potential
             ELSE DlInlineName(line_upper, k + 1)])])

\* clean_name_from_numbers(extract_english_only(next_line).strip().upper())
DlNextEnglish(next_line) ==
    clean_name_from_numbers(Upper(Strip(extract_english_only(Strip(next_line)))))

\* Case 2: a line with a NAME label only
DlNameLine(lines, i, acc) ==
    Bind([inline \in {DlInlineName(Strip(Upper(lines[i])), 1)} |->
    LET name1 == IF ~Truthy(acc.name) /\ Truthy(inline) THEN inline
                 ELSE acc.name
    IN
    Bind([next_english \in {IF i + 1 <= Len(lines) THEN DlNextEnglish(lines[i + 1]) ELSE None} |->
        [acc EXCEPT
           !.name =
              IF /\ ~Truthy(name1)
                 /\ i + 1 <= Len(lines)
                 /\ ~ReSearch(<<Bol, SoMarker>>, Upper(Strip(lines[i + 1])),
                              FALSE).ok
                 /\ Len(next_english) > 2
              THEN next_english ELSE name1]])])

RECURSIVE DlInlineFather(_, _)
DlInlineFather(line_upper, k) ==
    IF k > Len(dl_father_patterns) THEN None
    ELSE Bind([father_match \in {ReSearch(dl_father_patterns[k], line_upper, FALSE)} |->
         Bind([potential \in {
                      IF father_match.ok
                      THEN LongEnough(CutAddressWords(
                               clean_name_from_numbers(
                                   Strip(GroupOf(father_match, line_upper, 1))), TRUE))
                      ELSE None} |->
             IF father_match.ok /\ Truthy(potential) THEN potential
             ELSE DlInlineFather(line_upper, k + 1)])])

\* Case 3: a line with an S/O marker only
DlFatherLine(lines, i, acc) ==
    Bind([inline \in {DlInlineFather(Strip(Upper(lines[i])), 1)} |->
    LET father1 == IF ~Truthy(acc.father_name) /\ Truthy(inline) THEN inline
                   ELSE acc.father_name
    IN
    Bind([next_english \in {IF i + 1 <= Len(lines) THEN DlNextEnglish(lines[i + 1]) ELSE None} |->
        [acc EXCEPT
           !.father_name =
              IF /\ ~Truthy(father1)
                 /\ i + 1 <= Len(lines)
                 /\ Len(next_english) > 2
                 /\ ~ReSearch(<<Bol, Alt(<<L("ADD"), L("TAL"), L("DIST"),
                                           L("AP")>>)>>,
                              next_english, FALSE).ok
              THEN next_english ELSE father1]])])

\* \b(?:w1|w2|...)\b is found in s
HasWord(alts, s) == ReSearch(<<WB, Alt(alts), WB>>, s, FALSE).ok
\* label[:\s]+([A-Za-z]+), under IGNORECASE, in upper case
DlWordAfter(label, line) ==
    Bind([m \in {ReSearch(label \o <<Colons1>> \o Group(1, <<Plus(AsciiLetter)>>),
                          line, TRUE)} |->
        IF m.ok THEN Upper(Strip(GroupOf(m, line, 1))) ELSE None])
DisLabel == L("dis") \o <<Alt(<<L("t"), L("tr"), <<>>>>)>>

\* DlAddress without the test of the length of the English text
DlAddressUnchecked(line, cur) ==
    Bind([addr_match \in {
                 ReSearch(L("add") \o <<Maybe(L("ress")), Colons1>>
                          \o Group(1, <<Dot(1, -1)>>), line, TRUE)} |->
    LET addr == extract_english_only(Strip(GroupOf(addr_match, line, 1)))
    IN  IF /\ HasWord(<<L("add"), L("address")>>, Strip(Lower(line)))
           /\ addr_match.ok
        THEN addr ELSE cur])

\* the address of a line with an Add or Address label: the English text
\* after the label when it is longer than 2
DlAddress(line, cur) ==
    Bind([addr_match \in {
                 ReSearch(L("add") \o <<Maybe(L("ress")), Colons1>>
                          \o Group(1, <<Dot(1, -1)>>), line, TRUE)} |->
    Bind([addr \in {IF addr_match.ok THEN extract_english_only(Strip(GroupOf(addr_match, line, 1))) ELSE None} |->
        IF /\ HasWord(<<L("add"), L("address")>>, Strip(Lower(line)))
           /\ addr_match.ok
           /\ Len(addr) > 2
        THEN addr ELSE cur])])

\* the address, taluka, district and date fields of a line
DlFieldsOfLine(line, acc) ==
    Bind([line_lower \in {Strip(Lower(line))} |->
    Bind([tal \in {DlWordAfter(L("tal"), line)} |->
    Bind([dist \in {DlWordAfter(DisLabel, line)} |->
    Bind([date \in {extract_date(clean_text_for_matching(line))} |->
        [acc EXCEPT
           !.address = DlAddress(line, @),
           !.taluka =
              IF HasWord(<<L("tal")>>, line_lower) /\ tal # None THEN tal
              ELSE @,
           !.district =
              IF HasWord(<<DisLabel>>, line_lower) /\ dist # None THEN dist
              ELSE @,
           !.date_of_birth =
              IF /\ HasWord(<<L("dob"), L("doe"), L("d.o.b"),
                              L("date") \o <<Ws0>> \o L("of") \o <<Ws0>>
                                \o L("birth"),
                              <<One({"b"}), Opt({"."}), One({"c"})>>>>,
                            line_lower)
                 /\ Truthy(date)
              THEN date ELSE @,
           !.valid_till =
              IF /\ HasWord(<<L("valid"), L("expir"), L("till")>>, line_lower)
                 /\ Truthy(date)
              THEN date ELSE @,
           !.date_of_issue =
              IF /\ HasWord(<<L("issue"), L("doi"), L("dld")>>, line_lower)
                 /\ Truthy(date)
              THEN date ELSE @]])])])])

RECURSIVE DlLines(_, _, _)
DlLines(lines, i, acc) ==
    IF i > Len(lines) THEN acc
    ELSE LET line == lines[i]
             line_lower == Strip(Lower(line))
         IN
         Bind([has_name \in {Contains(line_lower, S("name"))} |->
         Bind([has_so \in {HasSo(line_lower)} |->
             DlLines(lines, i + 1,
               IF AnyIn(DlHeaders, line_lower) /\ ~has_name THEN acc
               ELSE IF has_name /\ has_so
               THEN DlMergedLine(Strip(Upper(line)), acc)
               ELSE IF has_name
               THEN DlFieldsOfLine(line, DlNameLine(lines, i, acc))
               ELSE IF has_so
               THEN DlFieldsOfLine(line, DlFatherLine(lines, i, acc))
               ELSE DlFieldsOfLine(line, acc))])])

\* the full address built from a single part as well
DlWithFullAddressOfAny(d, address_parts) ==
    IF address_parts # <<>>
    THEN Put(d, "full_address", Join(S(", "), address_parts))
    ELSE d
\* if len(address_parts) > 1: info['full_address'] = ', '.join(address_parts)
DlWithFullAddress(d, address_parts) ==
    IF Len(address_parts) > 1
    THEN Put(d, "full_address", Join(S(", "), address_parts))
    ELSE d

extract_driving_license(txt, lines) ==
    LET text_upper == Upper(txt)
    IN
    Bind([dl \in {FirstGroup(dl_patterns, 1, text_upper, FALSE)} |->
    LET dl_number == IF dl = None THEN None ELSE RemoveChar(dl, " ")
    IN
    Bind([f \in {DlLines(lines, 1,
                   [name |-> None, father_name |-> None, address |-> None,
                    taluka |-> None, district |-> None, date_of_birth |-> None,
                    valid_till |-> None, date_of_issue |-> None])} |->
    LET address_parts ==
            (IF Truthy(f.address) THEN <<f.address>> ELSE <<>>)
            \o (IF Truthy(f.taluka) THEN <<S("Tal: ") \o f.taluka>> ELSE <<>>)
            \o (IF Truthy(f.district) THEN <<S("Dist: ") \o f.district>>
                ELSE <<>>)
        i1 == PutIf(PutIf(<<>>, "document_id", dl_number), "dl_number", dl_number)
        i2 == IF f.address # None THEN Put(i1, "address", f.address) ELSE i1
    IN
    Bind([i3 \in {IF f.taluka # None THEN Put(i2, "taluka", f.taluka) ELSE i2} |->
    LET i4 == IF f.district # None THEN Put(i3, "district", f.district) ELSE i3
        i5 == PutIf(PutIf(PutIf(i4, "date_of_birth", f.date_of_birth),
                          "valid_till", f.valid_till),
                    "date_of_issue", f.date_of_issue)
        i6 == PutIf(PutIf(i5, "name", f.name), "father_name", f.father_name)
    IN  DlWithFullAddress(i6, address_parts)])])])

-----------------------------------------------------------------------------
(* extractor.py: extract_handwritten                                       *)

\* \s*[:\-]?\s*
Sep == <<Ws0, Opt({":", "-"}), Ws0>>
\* a\s*b
Spaced(a, b) == L(a) \o <<Ws0>> \o L(b)

FirstNameLabel == <<Alt(<<Spaced("first", "name"), L("fname")>>)>>
MiddleNameLabel == <<Alt(<<Spaced("middle", "name"), L("mname")>>)>>
SurnameLabel ==
    <<Alt(<<L("surname"), Spaced("sur", "name"), Spaced("last", "name"),
            L("lname"), Spaced("family", "name")>>)>>
\* full\s*name|(?<!first\s)(?<!middle\s)(?<!last\s)name|applicant\s*name
FullNameLabel ==
    <<Alt(<<Spaced("full", "name"),
            <<NotBehind(L("first") \o <<One(Whitespace)>>, 6),
              NotBehind(L("middle") \o <<One(Whitespace)>>, 7),
              NotBehind(L("last") \o <<One(Whitespace)>>, 5)>> \o L("name"),
            Spaced("applicant", "name")>>)>>
\* father'?s?\s*name|f/?name  and the same for mother
ParentLabel(parent, initial) ==
    <<Alt(<<L(parent) \o <<Opt({"'"}), Opt({"s"}), Ws0>> \o L("name"),
            L(initial) \o <<Opt({"/"})>> \o L("name")>>)>>
AddressLabel == <<Alt(<<L("address"), L("addr"), L("residence")>>)>>
CityLabel == <<Alt(<<L("city"), L("town"), L("village")>>)>>
OccupationLabel == <<Alt(<<L("occupation"), L("profession"), L("job")>>)>>
\* [\w\.-]+@[\w\.-]+\.\w+
EmailPattern ==
    <<Plus(WordChar \cup {".", "-"}), One({"@"}), Plus(WordChar \cup {".", "-"}),
      One({"."}), Plus(WordChar)>>

\* the branch of the elif chain that a line takes
HwBranch(line_lower) ==
    IF HasWord(<<Spaced("first", "name"), L("fname")>>, line_lower)
    THEN "first_name"
    ELSE IF HasWord(<<Spaced("middle", "name"), L("mname")>>, line_lower)
    THEN "middle_name"
    ELSE IF HasWord(SurnameLabel[1].alts, line_lower) THEN "surname"
    ELSE IF /\ HasWord(<<Spaced("full", "name"), L("name"),
                         Spaced("applicant", "name")>>, line_lower)
            /\ ~HasWord(<<L("first"), L("middle"), L("last"), L("surname"),
                          L("father"), L("mother")>>, line_lower)
    THEN "full_name"
    ELSE IF /\ HasWord(ParentLabel("father", "f")[1].alts \o <<L("father")>>,
                       line_lower)
            /\ ~Contains(line_lower, S("grand"))
    THEN "father_name"
    ELSE IF HasWord(ParentLabel("mother", "m")[1].alts \o <<L("mother")>>,
                    line_lower)
    THEN "mother_name"
    ELSE IF HasWord(<<<<One({"d"}), Opt({"."}), One({"o"}), Opt({"."}),
                        One({"b"})>>,
                      L("date") \o <<Ws0>> \o L("of") \o <<Ws0>> \o L("birth"),
                      Spaced("birth", "date"), L("dob")>>, line_lower)
    THEN "dob"
    ELSE IF HasWord(<<L("age")>>, line_lower) THEN "age"
    ELSE IF HasWord(<<L("gender"), L("sex")>>, line_lower) THEN "gender"
    ELSE IF /\ HasWord(AddressLabel[1].alts, line_lower)
            /\ ~Contains(line_lower, S("email"))
    THEN "address"
    ELSE IF HasWord(CityLabel[1].alts, line_lower) THEN "city"
    ELSE IF /\ HasWord(<<L("state")>>, line_lower)
            /\ ~Contains(line_lower, S("marital"))
    THEN "state"
    ELSE IF HasWord(<<Spaced("pin", "code"), L("pincode"),
                      Spaced("postal", "code"), L("zip")>>, line_lower)
    THEN "pin_code"
    ELSE IF HasWord(<<L("mobile"), L("phone"), L("contact"), L("tel")>>,
                    line_lower)
    THEN "mobile"
    ELSE IF HasWord(<<L("email")>>, line_lower) THEN "email"
    ELSE IF HasWord(OccupationLabel[1].alts, line_lower) THEN "occupation"
    ELSE "other"

\* first, middle and last name: the word after the label, else the next
\* line when it looks like a name
HwWordField(label, lines, i, cur) ==
    LET line == lines[i]
    IN
    Bind([match \in {ReSearch(label \o Sep \o Group(1, <<Plus(AsciiLetter)>>),
                              line, TRUE)} |->
    Bind([potential \in {IF match.ok THEN Strip(GroupOf(match, line, 1)) ELSE None} |->
    LET value == IF match.ok /\ Len(potential) > 1 THEN Upper(potential)
                 ELSE cur
    IN
    Bind([next_line \in {IF i + 1 <= Len(lines) THEN Strip(extract_english_only(lines[i + 1])) ELSE None} |->
        IF /\ ~Truthy(value)
           /\ i + 1 <= Len(lines)
           /\ Len(next_line) > 1
           /\ looks_like_name(next_line)
        THEN Upper(next_line) ELSE value])])])

\* full name, father's and mother's name: the words after the label, else
\* the next line, when they look like a name
HwNameField(label, lines, i, cur) ==
    LET line == lines[i]
    IN
    Bind([match \in {ReSearch(label \o Sep \o NameGroup, line, TRUE)} |->
    Bind([potential \in {IF match.ok THEN clean_name_from_numbers(Strip(GroupOf(match, line, 1))) ELSE None} |->
    Bind([value \in {IF match.ok /\ Len(potential) > 2 /\ looks_like_name(potential)
                     THEN Upper(potential) ELSE cur} |->
    Bind([next_line \in {
                 IF i + 1 <= Len(lines)
                 THEN clean_name_from_numbers(Strip(extract_english_only(lines[i + 1])))
                 ELSE None} |->
        IF /\ ~Truthy(value)
           /\ i + 1 <= Len(lines)
           /\ Len(next_line) > 2
           /\ looks_like_name(next_line)
        THEN Upper(next_line) ELSE value])])])])

\* city, state and occupation: the text after the label, else the next line
\* when the label has no text after it
HwTextField(label, lines, i, cur) ==
    LET line == lines[i]
    IN
    Bind([match \in {ReSearch(label \o Sep
                              \o Group(1, <<Plus(AsciiLetter \cup Whitespace)>>),
                              line, TRUE)} |->
    Bind([potential \in {IF match.ok THEN Strip(GroupOf(match, line, 1)) ELSE None} |->
    LET next_line == Strip(extract_english_only(lines[i + 1]))
    IN  IF match.ok
        THEN (IF Len(potential) > 1 THEN Upper(potential) ELSE cur)
        ELSE IF i + 1 <= Len(lines) /\ Len(next_line) > 1
        THEN Upper(next_line) ELSE cur])])

\* int(digits) and str(n)
DigitValue(c) ==
    IF c \in DevaDigit THEN (CHOOSE k \in 1..10 : DevaDigits[k] = c) - 1
    ELSE (CHOOSE k \in 1..10 : ArabicDigits[k] = c) - 1
RECURSIVE IntOf(_)
IntOf(digits) ==
    IF digits = <<>> THEN 0
    ELSE 10 * IntOf(SubSeq(digits, 1, Len(digits) - 1))
         + DigitValue(digits[Len(digits)])
RECURSIVE StrOf(_)
StrOf(n) ==
    IF n < 10 THEN <<ArabicDigits[n + 1]>>
    ELSE Append(StrOf(n \div 10), ArabicDigits[(n % 10) + 1])

\* the age taken as written, whatever its value
AgeOfAnyValue(digits, cur) == StrOf(IntOf(digits))
\* age = str(potential_age) if 0 < potential_age < 150
AgeOf(digits, cur) ==
    IF 0 < IntOf(digits) /\ IntOf(digits) < 150 THEN StrOf(IntOf(digits))
    ELSE cur
HwAge(lines, i, cur) ==
    LET line == lines[i]
    IN
    Bind([age_match \in {ReSearch(L("age") \o Sep
                                  \o Group(1, <<Cls(UniDigit, 1, 3)>>), line, TRUE)} |->
    LET next_line == Strip(lines[i + 1])
    IN
    Bind([next_match \in {IF i + 1 <= Len(lines)
                           THEN ReSearch(<<Bol>> \o Group(1, <<Cls(UniDigit, 1, 3)>>)
                                         \o <<Eol>>, next_line, FALSE)
                           ELSE NoMatch} |->
        IF age_match.ok THEN AgeOf(GroupOf(age_match, line, 1), cur)
        ELSE IF i + 1 <= Len(lines) /\ next_match.ok
        THEN AgeOf(GroupOf(next_match, next_line, 1), cur)
        ELSE cur])])

\* the gender of a gender line: the word female is tested first; when the
\* line has none of the words, the next line decides
HwGender(lines, i, cur) ==
    LET line_lower == Strip(Lower(lines[i]))
        next_line == Lower(Strip(lines[i + 1]))
    IN  IF ReSearch(FemaleWord, line_lower, FALSE).ok THEN S("Female")
        ELSE IF ReSearch(MaleWord, line_lower, FALSE).ok THEN S("Male")
        ELSE IF HasWord(<<L("other")>>, line_lower) THEN S("Other")
        ELSE IF i + 1 > Len(lines) THEN cur
        ELSE IF Contains(next_line, S("female")) THEN S("Female")
        ELSE IF Contains(next_line, S("male")) THEN S("Male")
        ELSE IF Contains(next_line, S("other")) THEN S("Other")
        ELSE cur

\* (?:city|state|pin|mobile|phone|email|gender|name|dob)
FieldLabelWords ==
    <<S("city"), S("state"), S("pin"), S("mobile"), S("phone"), S("email"),
      S("gender"), S("name"), S("dob")>>
\* the continuation of the address on the lines i + j, j = 1, 2, 3
RECURSIVE HwAddressNext(_, _, _, _)
HwAddressNext(lines, i, j, parts) ==
    IF j > 3 \/ i + j > Len(lines) THEN parts
    ELSE LET next_line == Strip(lines[i + j])
         IN  IF AnyIn(FieldLabelWords, Lower(next_line)) THEN parts
             ELSE HwAddressNext(lines, i, j + 1,
                    IF Len(next_line) > 2 THEN Append(parts, next_line)
                    ELSE parts)
HwAddress(lines, i, parts) ==
    LET line == lines[i]
    IN
    Bind([addr_match \in {ReSearch(AddressLabel \o Sep \o Group(1, <<Dot(1, -1)>>),
                                   line, TRUE)} |->
    Bind([addr_text \in {IF addr_match.ok THEN Strip(GroupOf(addr_match, line, 1)) ELSE None} |->
        HwAddressNext(lines, i, 1,
          IF addr_match.ok /\ Len(addr_text) > 2 THEN Append(parts, addr_text)
          ELSE parts)])])

\* pin code, mobile and email: the match in the line, else in the next line
HwMatchField(pattern, n, lines, i, cur) ==
    LET line == lines[i]
    IN
    Bind([m \in {ReSearch(pattern, line, FALSE)} |->
    LET next_line == Strip(lines[i + 1])
    IN
    Bind([next_m \in {IF i + 1 <= Len(lines)
                       THEN ReSearch(pattern, next_line, FALSE) ELSE NoMatch} |->
        IF m.ok THEN GroupOf(m, line, n)
        ELSE IF i + 1 <= Len(lines) /\ next_m.ok
        THEN GroupOf(next_m, next_line, n)
        ELSE cur])])

HwStart ==
    [first_name |-> None, middle_name |-> None, surname |-> None,
     full_name |-> None, father_name |-> None, mother_name |-> None,
     dob |-> None, address_parts |-> <<>>, city |-> None, state |-> None,
     pin_code |-> None, gender |-> None, mobile |-> None, email |-> None,
     age |-> None, occupation |-> None]

\* the body of the loop over the lines, for line i
HwLine(lines, i, acc) ==
    Bind([branch \in {HwBranch(Strip(Lower(lines[i])))} |->
    Bind([email \in {HwMatchField(EmailPattern, 0, lines, i, acc.email)} |->
        CASE branch = "first_name" ->
               [acc EXCEPT !.first_name =
                   HwWordField(FirstNameLabel, lines, i, @)]
          [] branch = "middle_name" ->
               [acc EXCEPT !.middle_name =
                   HwWordField(MiddleNameLabel, lines, i, @)]
          [] branch = "surname" ->
               [acc EXCEPT !.surname = HwWordField(SurnameLabel, lines, i, @)]
          [] branch = "full_name" ->
               [acc EXCEPT !.full_name =
                   HwNameField(FullNameLabel, lines, i, @)]
          [] branch = "father_name" ->
               [acc EXCEPT !.father_name =
                   HwNameField(ParentLabel("father", "f"), lines, i, @)]
          [] branch = "mother_name" ->
               [acc EXCEPT !.mother_name =
                   HwNameField(ParentLabel("mother", "m"), lines, i, @)]
          [] branch = "dob" -> PanDobLine(lines, i, acc)
          [] branch = "age" -> [acc EXCEPT !.age = HwAge(lines, i, @)]
          [] branch = "gender" ->
               [acc EXCEPT !.gender = HwGender(lines, i, @)]
          [] branch = "address" ->
               [acc EXCEPT !.address_parts = HwAddress(lines, i, @)]
          [] branch = "city" ->
               [acc EXCEPT !.city = HwTextField(CityLabel, lines, i, @)]
          [] branch = "state" ->
               [acc EXCEPT !.state = HwTextField(L("state"), lines, i, @)]
          [] branch = "pin_code" ->
               [acc EXCEPT !.pin_code =
                   HwMatchField(Group(1, <<Cls(UniDigit, 6, 6)>>), 1, lines,
                                i, @)]
          [] branch = "mobile" ->
               [acc EXCEPT !.mobile =
                   HwMatchField(MOBILE_PATTERN, 1, lines, i, @)]
          [] branch = "email" ->
               [acc EXCEPT !.email =
                   IF email = None THEN None ELSE Lower(email)]
          [] branch = "occupation" ->
               [acc EXCEPT !.occupation =
                   HwTextField(OccupationLabel, lines, i, @)]
          [] OTHER -> acc])])

RECURSIVE HwLines(_, _, _)
HwLines(lines, i, acc) ==
    IF i > Len(lines) THEN acc
    ELSE HwLines(lines, i + 1, HwLine(lines, i, acc))

\* the name fields with the second word alone as the middle name
HwNameFieldsOneMiddle(f) ==
    LET name_words == Words(f.full_name)
        n == Len(name_words)
        whole == Put(<<>>, "name", f.full_name)
    IN  IF Truthy(f.first_name) \/ Truthy(f.middle_name) \/ Truthy(f.surname)
        THEN Put(PutIf(PutIf(PutIf(<<>>, "first_name", f.first_name),
                             "middle_name", f.middle_name),
                       "surname", f.surname),
                 "name", Join(<<" ">>,
                     SelectSeq(<<f.first_name, f.middle_name, f.surname>>,
                               Truthy)))
        ELSE IF ~Truthy(f.full_name) THEN <<>>
        ELSE IF n >= 3
        THEN Put(Put(Put(whole, "first_name", name_words[1]),
                     "middle_name", name_words[2]),
                 "surname", name_words[n])
        ELSE IF n = 2
        THEN Put(Put(whole, "first_name", name_words[1]),
                 "surname", name_words[2])
        ELSE IF n = 1 THEN Put(whole, "first_name", name_words[1])
        ELSE whole

\* the name fields of the output: from the parts when there is one, else
\* from the full name split into its words
HwNameFields(f) ==
    LET name_parts ==
            (IF Truthy(f.first_name) THEN <<f.first_name>> ELSE <<>>)
            \o (IF Truthy(f.middle_name) THEN <<f.middle_name>> ELSE <<>>)
            \o (IF Truthy(f.surname) THEN <<f.surname>> ELSE <<>>)
    IN
    Bind([name_words \in {Words(f.full_name)} |->
    LET n == Len(name_words)
        whole == Put(<<>>, "name", f.full_name)
    IN  IF name_parts # <<>>
        THEN Put(PutIf(PutIf(PutIf(<<>>, "first_name", f.first_name),
                             "middle_name", f.middle_name),
                       "surname", f.surname),
                 "name", Join(<<" ">>, name_parts))
        ELSE IF ~Truthy(f.full_name) THEN <<>>
        ELSE IF n >= 3
        THEN Put(Put(Put(whole, "first_name", name_words[1]),
                     "middle_name",
                     Join(<<" ">>, SubSeq(name_words, 2, n - 1))),
                 "surname", name_words[n])
        ELSE IF n = 2
        THEN Put(Put(whole, "first_name", name_words[1]),
                 "surname", name_words[2])
        ELSE IF n = 1 THEN Put(whole, "first_name", name_words[1])
        ELSE whole])

\* extract_handwritten returning the fields found and no marker
extract_handwritten_unmarked(txt, lines) ==
    Bind([f \in {HwLines(lines, 1, HwStart)} |->
        PutIf(PutIf(HwNameFields(f), "age", f.age), "gender", f.gender)])

extract_handwritten(txt, lines) ==
    Bind([f \in {HwLines(lines, 1, HwStart)} |->
    LET i1 == HwNameFields(f)
        i2 == PutIf(PutIf(i1, "father_name", f.father_name),
                    "mother_name", f.mother_name)
    IN
    Bind([i3 \in {PutIf(PutIf(PutIf(i2, "date_of_birth", f.dob), "age", f.age),
                        "gender", f.gender)} |->
    LET i4 == IF f.address_parts # <<>>
              THEN Put(i3, "address", Join(S(", "), f.address_parts))
              ELSE i3
        i5 == PutIf(PutIf(PutIf(i4, "city", f.city), "state", f.state),
                    "pin_code", f.pin_code)
        i6 == PutIf(PutIf(PutIf(i5, "mobile", f.mobile), "email", f.email),
                    "occupation", f.occupation)
    IN  Put(i6, "document_type", S("Handwritten Form"))])])

-----------------------------------------------------------------------------
(* extractor.py: extract_document_info                                     *)

\* the generic extraction for the other document types: each ID shape that
\* is found overwrites document_id
GenericInfo(txt) ==
    Bind([text_clean \in {clean_text_for_matching(txt)} |->
    Bind([text_upper \in {Upper(txt)} |->
    Bind([pan_match \in {ReSearch(PAN_PATTERN, text_upper, FALSE)} |->
    Bind([aadhaar_match \in {ReSearch(AADHAAR_PATTERN, text_clean, FALSE)} |->
    Bind([voter_id_match \in {ReSearch(VOTER_ID_PATTERN, text_upper, FALSE)} |->
    Bind([dl_match \in {ReSearch(DRIVING_LICENSE_PATTERN, text_upper, FALSE)} |->
    Bind([i1 \in {IF pan_match.ok
                  THEN Put(<<>>, "document_id", GroupOf(pan_match, text_upper, 1))
                  ELSE <<>>} |->
    Bind([i2 \in {IF aadhaar_match.ok
                  THEN Put(i1, "document_id",
                           RemoveChar(GroupOf(aadhaar_match, text_clean, 1), " "))
                  ELSE i1} |->
    Bind([i3 \in {IF voter_id_match.ok
                  THEN Put(i2, "document_id",
                           GroupOf(voter_id_match, text_upper, 1))
                  ELSE i2} |->
    LET i4 == IF dl_match.ok
              THEN Put(i3, "document_id",
                       RemoveChar(GroupOf(dl_match, text_upper, 1), " "))
              ELSE i3
    IN  PutIf(i4, "date_of_birth", extract_date(text_clean))])])])])])])])])])

extract_document_info(txt, type) ==
    Bind([lines \in {StrippedLines(txt)} |->
        CASE type = "AADHAAR" -> extract_aadhaar(txt, lines)
          [] type = "PAN" -> extract_pan(txt, lines)
          [] type = "VOTER_ID" -> extract_voter_id(txt, lines)
          [] type = "DRIVING_LICENSE" -> extract_driving_license(txt, lines)
          [] type = "HANDWRITTEN" -> extract_handwritten(txt, lines)
          [] OTHER -> GenericInfo(txt)])

-----------------------------------------------------------------------------
(* Calls of extract_document_info                                          *)

AllTypes == Types \cup {"UNKNOWN"}

\* text.split('\n') failing also for a text without a non-blank line
ExtractRaisesOnNoLines(x) == ~IsStr(x) \/ StrippedLines(x) = <<>>

\* text.split('\n'): an AttributeError for a value without the methods of
\* str (for bytes, a TypeError: the separator is a str)
ExtractRaises(x) == ~IsStr(x)

\* the exception leaves extract_document_info
RaiseInExtract ==
    /\ pc = "extract"
    /\ ExtractRaises(text)
    /\ pc' = "raised"
    /\ UNCHANGED <<text, doc_type, scores, result, info, calls, returned>>

\* info = extract_document_info(text, doc_type)
Extract ==
    /\ pc = "extract"
    /\ ~ExtractRaises(text)
    /\ info' = extract_document_info(text, doc_type)
    /\ pc' = "extracted"
    /\ UNCHANGED <<text, doc_type, scores, result, calls, returned>>

InitExtractOf(texts, types) ==
    /\ text \in texts
    /\ doc_type \in types
    /\ pc = "extract"
    /\ scores = ZeroScores
    /\ result = NoResult
    /\ info = NoInfo
    /\ calls = NoCalls
    /\ returned = NoReturned

NextExtract == Extract

Extracted == pc = "extracted"
\* info.get(k): None when the key is absent
Get(d, k) == IF k \in DOMAIN d THEN d[k] ELSE None

\* Texts for every parser and the fallback: labels with and without a value
MaxLinesExtract == 2
ExtractLines ==
    {S("Name: Sita Devi"),
     S("Name:"),
     S("Father's Name"),
     S("Add: ") \o <<"u092A", "u0941", "u0923", "u0947">>,
     S("City: 12"),
     S("Gender: Female"),
     S("DOB: 13/07/2001"),
     S("VID: 9120 3595 3405 8780"),
     S("ABCDE1234F"),
     S("S/O: AB"),
     S("Address: -"),
     S("Age: 0"),
     S("To"),
     S("Email: a@b")}
InitExtract == InitExtractOf(TextsOf(ExtractLines, MaxLinesExtract), AllTypes)
SpecExtract == InitExtract /\ [][NextExtract]_vars

\* Aadhaar cards: the number and the VID, labelled and not
MaxLinesAadhaar == 3
AadhaarInputLines ==
    {S("Your Aadhaar No. : 6713 3842 5045"),
     S("VID: 9120 3595 3405 8780"),
     S("9120 3595 3405 8780"),
     S("Virtual ID: 9120 3595 3405 8780"),
     S("1234 5678 9012"),
     S("Name: Sita Devi"),
     S("DOB: 13/07/2001")}
InitAadhaar ==
    InitExtractOf(TextsOf(AadhaarInputLines, MaxLinesAadhaar), {"AADHAAR"})
SpecAadhaar == InitAadhaar /\ [][NextExtract]_vars

\* PAN cards: name and father's name, with English and with Hindi labels
MaxLinesPan == 3
PanInputLines ==
    {S("Name: JOHN SMITH"),
     S("Father's Name: ROBERT SMITH"),
     (<<"u0928", "u093E", "u092E">> \o S(" / Name")),
     (<<"u092A", "u093F", "u0924", "u093E">> \o S(" ") \o <<"u0915", "u093E">> \o S(" ") \o <<"u0928", "u093E", "u092E">> \o S(" ROBERT SMITH")),
     S("JOHN SMITH"),
     S("Date of Birth: 15/08/1990"),
     S("ABCDE1234F")}
InitPan == InitExtractOf(TextsOf(PanInputLines, MaxLinesPan), {"PAN"})
SpecPan == InitPan /\ [][NextExtract]_vars

\* Lines that speak of gender, with and without a gender label
MaxLinesGender == 2
GenderTypes == {"AADHAAR", "VOTER_ID", "HANDWRITTEN"}
GenderLines ==
    {S("female applicant, not male"),
     S("Gender: male female"),
     S("Gender: females and male"),
     S("Gender: Female"),
     S("Sex: male"),
     S("Age/Sex: Female"),
     S("Gender")}
InitGender == InitExtractOf(TextsOf(GenderLines, MaxLinesGender), GenderTypes)
SpecGender == InitGender /\ [][NextExtract]_vars

\* Names in which recognition repeated a word
MaxLinesNames == 2
NameLines ==
    {S("Name: Abhishek Kumar Singh Singh"),
     S("Father's Name: Lalababu Singh Singh"),
     S("Full Name: Abhishek Kumar Kumar"),
     S("S/O: RAM RAM LAL"),
     S("Name"),
     S("Ram Ram Kumar")}
InitNames == InitExtractOf(TextsOf(NameLines, MaxLinesNames), Types)
SpecNames == InitNames /\ [][NextExtract]_vars

-----------------------------------------------------------------------------
(* Claims about extract_document_info                                      *)

\* C6: for every text and every document type (the five typed parsers and
\* the fallback) the returned mapping has no key whose value is the empty
\* string (nor None): a field that was searched for and not found is absent.
C6_NoEmptyValue ==
    Extracted => \A k \in DOMAIN info : info[k] # <<>> /\ info[k] # None
\* a driving licence whose address label is followed by no English text was
\* extracted: the name is returned and the address is absent
C6_Witness ==
    /\ Extracted
    /\ doc_type = "DRIVING_LICENSE"
    /\ Contains(text, S("Add: "))
    /\ Has(info, "name")
    /\ ~Has(info, "address")

\* the 16-digit grouped tokens of a text, spaces removed
VidTokens(txt) ==
    {RemoveChar(v, " ") :
        v \in Range(ReFindAll(VID_PATTERN, clean_text_for_matching(txt), FALSE))}

\* C7: for type AADHAAR, whenever the text contains a 16-digit grouped token,
\* document_id is never 12 digits that form part of that token, whether the
\* token follows a VID label or not; and when a labelled VID is present, vid
\* is its 16 digits with the spaces removed.
C7_VidDigitsNeverAadhaar ==
    (Extracted /\ doc_type = "AADHAAR") =>
        Bind([text_clean \in {clean_text_for_matching(text)} |->
        Bind([vid_match \in {ReSearch(VidLabelled, text_clean, TRUE)} |->
            /\ \A v \in VidTokens(text) :
                  Has(info, "document_id") => ~Contains(v, info["document_id"])
            /\ vid_match.ok =>
                  Get(info, "vid")
                      = RemoveChar(GroupOf(vid_match, text_clean, 1), " ")])])

NameThenFather ==
    S("Name: JOHN SMITH") \o <<"\n">> \o S("Father's Name: ROBERT SMITH")

\* C8: for type PAN, the value that follows a Father's-Name label is never
\* returned as name, and a text with the separate lines "Name: X" and
\* "Father's Name: Y" yields name == X and father_name == Y.
C8_FatherNeverLeaksIntoName ==
    (Extracted /\ doc_type = "PAN") =>
        Bind([lines \in {StrippedLines(text)} |->
            /\ \A i \in DOMAIN lines :
                  (IsPanFatherLine(lines[i])
                   /\ Truthy(PanInlineFather(lines[i], 1)))
                  => Get(info, "name") # PanInlineFather(lines[i], 1)
            /\ text \in {NameThenFather,
                         NameThenFather \o <<"\n">>
                           \o S("Date of Birth: 15/08/1990")}
               => /\ Get(info, "name") = S("JOHN SMITH")
                  /\ Get(info, "father_name") = S("ROBERT SMITH")])

\* C9, as claimed: for AADHAAR, VOTER_ID and HANDWRITTEN a text that
\* contains both the substring "female" and the substring "male" yields
\* gender == "Female".
C9_FemaleAndMaleGivesFemale ==
    ( /\ Extracted
      /\ doc_type \in GenderTypes
      /\ Contains(text, S("female"))
      /\ Contains(text, S("male")) )
    => Get(info, "gender") = S("Female")

\* the lines that reach the gender step of a parser's loop over the lines
VoterGenderLines(lines) ==
    {i \in DOMAIN lines : VoterBranch(lines[i]) = "gender"}
HwGenderLines(lines) ==
    {i \in DOMAIN lines : HwBranch(Strip(Lower(lines[i]))) = "gender"}
Last(set) == CHOOSE i \in set : \A j \in set : j <= i

\* C9, amended: female is tested first on the text each parser inspects.
\* AADHAAR: a text with the whole word female yields Female.  VOTER_ID and
\* HANDWRITTEN: without a line that reaches the gender step there is no
\* gender; when the last such line contains female (HANDWRITTEN: as a whole
\* word) the gender is Female, also when the line contains male as well.
C9_FemaleFirst ==
    Extracted =>
        Bind([lines \in {StrippedLines(text)} |->
        Bind([vg \in {VoterGenderLines(lines)} |->
        Bind([hg \in {HwGenderLines(lines)} |->
            /\ (doc_type = "AADHAAR" /\ ReSearch(FemaleWord, text, TRUE).ok)
               => Get(info, "gender") = S("Female")
            /\ (doc_type = "VOTER_ID" /\ vg = {}) => ~Has(info, "gender")
            /\ ( /\ doc_type = "VOTER_ID"
                 /\ vg # {}
                 /\ Contains(Lower(lines[Last(vg)]), S("female")) )
               => Get(info, "gender") = S("Female")
            /\ (doc_type = "HANDWRITTEN" /\ hg = {}) => ~Has(info, "gender")
            /\ ( /\ doc_type = "HANDWRITTEN"
                 /\ hg # {}
                 /\ ReSearch(FemaleWord, Lower(lines[Last(hg)]), FALSE).ok )
               => Get(info, "gender") = S("Female")])])])
\* a voter card whose last gender line has both the word male and the word
\* female was extracted, with the gender Female
C9_Witness ==
    /\ Extracted
    /\ doc_type = "VOTER_ID"
    /\ VoterGenderLines(StrippedLines(text)) # {}
    /\ LET lines == StrippedLines(text)
       IN
       Bind([line \in {Lower(lines[Last(VoterGenderLines(lines))])} |->
           /\ ReSearch(MaleWord, line, FALSE).ok
           /\ ReSearch(FemaleWord, line, FALSE).ok])
    /\ Get(info, "gender") = S("Female")

\* two consecutive words of a name are equal, case ignored
HasAdjacentDuplicate(name) ==
    \E i \in 1..(Len(Words(name)) - 1) :
        Lower(Words(name)[i]) = Lower(Words(name)[i + 1])

\* C10: every name and father_name returned by a typed parser (AADHAAR, PAN,
\* VOTER_ID, DRIVING_LICENSE, HANDWRITTEN) has no two consecutive words that
\* are equal when compared case-insensitively.
C10_NamesHaveNoAdjacentDuplicates ==
    (Extracted /\ doc_type \in Types) =>
        \A k \in {"name", "father_name"} :
            Has(info, k) => ~HasAdjacentDuplicate(info[k])

-----------------------------------------------------------------------------
(* Sessions: calls of classify_document and extract_document_info made     *)
(* one after another and at the same time by several threads.  The keyword *)
(* lists and the compiled patterns are module constants that no statement  *)
(* of either function assigns or mutates; everything a call writes is a    *)
(* local of that call.                                                     *)

MaxThreads == 2
Threads == 1..MaxThreads

IdleCall ==
    [pc |-> "idle", op |-> "", text |-> <<>>, type |-> "",
     scores |-> ZeroScores, out |-> <<>>]

SessionTexts ==
    {S("Name: Sita Devi") \o <<"\n">> \o S("ABCDE1234F"),
     S("DOB: 13/07/2001") \o <<"\n">> \o S("1234 5678 9012")}
SessionTypes == {"AADHAAR", "UNKNOWN"}

\* info.update: the keys of b over those of a
Merge(a, b) ==
    [k \in DOMAIN a \cup DOMAIN b |-> IF k \in DOMAIN b THEN b[k] ELSE a[k]]

\* the fields that earlier calls of extract_document_info returned
LeftBehind ==
    LET old == {r \in returned : r.op = "extract"}
        keys == UNION {DOMAIN r.out : r \in old}
    IN  [k \in keys |-> (CHOOSE r \in old : k \in DOMAIN r.out).out[k]]

\* extract_document_info filling one dictionary kept between the calls
ExtractCallKeepingInfo(c) ==
    Merge(LeftBehind, extract_document_info(c.text, c.type))

\* extract_document_info(text, doc_type): the parsers fill a dictionary
\* created by the call
ExtractCall(c) == extract_document_info(c.text, c.type)

\* the scores dictionary shared by the calls in progress
SharedScores(t) ==
    LET busy == {u \in Threads \ {t} :
                    calls[u].pc \in {"keywords", "patterns", "adjusted"}}
    IN  IF busy = {} THEN calls[t].scores
        ELSE calls[CHOOSE u \in busy : TRUE].scores

\* scores = {...}: a dictionary created by the call
LocalScores(t) == calls[t].scores

Idle == UNCHANGED <<text, doc_type, pc, scores, result, info>>

\* a thread calls classify_document(text)
CallClassify(t) ==
    /\ calls[t].pc = "idle"
    /\ \E txt \in SessionTexts :
         calls' = [calls EXCEPT ![t] =
                      [IdleCall EXCEPT !.pc = "classify", !.op = "classify",
                                       !.text = txt]]
    /\ UNCHANGED returned
    /\ Idle

\* a thread calls extract_document_info(text, doc_type)
CallExtract(t) ==
    /\ calls[t].pc = "idle"
    /\ \E txt \in SessionTexts, ty \in SessionTypes :
         calls' = [calls EXCEPT ![t] =
                      [IdleCall EXCEPT !.pc = "extract", !.op = "extract",
                                       !.text = txt, !.type = ty]]
    /\ UNCHANGED returned
    /\ Idle

ThreadCountKeywords(t) ==
    /\ calls[t].pc = "classify"
    /\ calls' = [calls EXCEPT ![t].scores = KeywordScores(calls[t].text),
                              ![t].pc = "keywords"]
    /\ UNCHANGED returned
    /\ Idle

ThreadPatternBonus(t) ==
    /\ calls[t].pc = "keywords"
    /\ calls' = [calls EXCEPT
                   ![t].scores = PatternScores(LocalScores(t), calls[t].text),
                   ![t].pc = "patterns"]
    /\ UNCHANGED returned
    /\ Idle

ThreadHandwrittenAdjust(t) ==
    /\ calls[t].pc = "patterns"
    /\ calls' = [calls EXCEPT
                   ![t].scores =
                       HandwrittenScores(LocalScores(t), calls[t].text),
                   ![t].pc = "adjusted"]
    /\ UNCHANGED returned
    /\ Idle

ThreadDecide(t) ==
    /\ calls[t].pc = "adjusted"
    /\ calls' = [calls EXCEPT ![t].out = Classification(LocalScores(t)),
                              ![t].pc = "done"]
    /\ UNCHANGED returned
    /\ Idle

ThreadExtract(t) ==
    /\ calls[t].pc = "extract"
    /\ calls' = [calls EXCEPT ![t].out = ExtractCall(calls[t]),
                              ![t].pc = "done"]
    /\ UNCHANGED returned
    /\ Idle

\* the call returns its value to the caller
Return(t) ==
    /\ calls[t].pc = "done"
    /\ returned' = returned \cup
           {[op |-> calls[t].op, text |-> calls[t].text,
             type |-> calls[t].type, out |-> calls[t].out]}
    /\ calls' = [calls EXCEPT ![t] = IdleCall]
    /\ Idle

InitSession ==
    /\ text = <<>>
    /\ doc_type = ""
    /\ pc = "session"
    /\ scores = ZeroScores
    /\ result = NoResult
    /\ info = NoInfo
    /\ calls = [t \in Threads |-> IdleCall]
    /\ returned = NoReturned

NextSession ==
    \E t \in Threads :
        \/ CallClassify(t)
        \/ CallExtract(t)
        \/ ThreadCountKeywords(t)
        \/ ThreadPatternBonus(t)
        \/ ThreadHandwrittenAdjust(t)
        \/ ThreadDecide(t)
        \/ ThreadExtract(t)
        \/ Return(t)

SpecSession == InitSession /\ [][NextSession]_vars

\* the values of the calls that have returned or are about to
Outcomes ==
    returned \cup
        {[op |-> calls[t].op, text |-> calls[t].text, type |-> calls[t].type,
          out |-> calls[t].out] : t \in {u \in Threads : calls[u].pc = "done"}}

-----------------------------------------------------------------------------
(* Numbers written in Devanagari digits                                    *)

MaxLinesNumerals == 2
NumeralLines ==
    {(S("ABCDE") \o <<"u0967", "u0968", "u0969", "u096A">> \o S("F")),
     (<<"u0967", "u0968", "u0969", "u096A">> \o S(" ") \o <<"u096B", "u096C", "u096D", "u096E">> \o S(" ") \o <<"u096F", "u0966", "u0967", "u0968">>),
     (S("ABC") \o <<"u0967", "u0968", "u0969", "u096A", "u096B", "u096C", "u096D">>),
     (S("MH") \o <<"u0967", "u0968">> \o S(" ") \o <<"u0968", "u0966", "u0966", "u0967", "u0966", "u0967", "u096A", "u096F", "u0969", "u0967", "u0969">>),
     (S("Pin Code: ") \o <<"u096A", "u0967", "u0967", "u0966", "u0966", "u0967">>),
     (S("Mobile: ") \o <<"u096F", "u096E", "u096D", "u096C", "u096B", "u096A", "u0969", "u0968", "u0967", "u0966">>),
     (S("DOB: ") \o <<"u0967", "u0969">> \o S("/") \o <<"u0966", "u096D">> \o S("/") \o <<"u0968", "u0966", "u0966", "u0967">>),
     (S("Age: ") \o <<"u0968", "u096B">>)}
InitNumerals == InitExtractOf(TextsOf(NumeralLines, MaxLinesNumerals), AllTypes)
SpecNumerals == InitNumerals /\ [][NextExtract]_vars

NumericKeys ==
    {"document_id", "aadhaar_number", "vid", "pan_number", "voter_id",
     "dl_number", "pin_code", "mobile", "age", "date_of_birth"}

\* C12: in every parser a number written in Devanagari digits is matched
\* exactly like its ASCII form and is returned in ASCII digits: each date
\* and numeric ID field of the mapping equals the field extracted from the
\* text with its Devanagari digits converted, and holds no Devanagari digit.
C12_DevanagariDigitsAreConverted ==
    Extracted =>
        \A k \in NumericKeys :
            /\ Get(info, k) =
                   Get(extract_document_info(convert_hindi_numerals(text),
                                             doc_type), k)
            /\ Has(info, k) => \A i \in 1..Len(info[k]) : info[k][i] \notin DevaDigit

-----------------------------------------------------------------------------
(* ID tokens inside longer runs of letters and digits                      *)

MaxLinesTokens == 2
TokenLines ==
    {S("DL No: MH12 200101493134567"),
     S("Aadhaar No: 1234567890123456"),
     S("VID: 91203595340587801234"),
     S("ABCDE1234FG"),
     S("XABC1234567"),
     S("MH12 20010149313"),
     S("1234 5678 9012")}
InitTokens == InitExtractOf(TextsOf(TokenLines, MaxLinesTokens), AllTypes)
SpecTokens == InitTokens /\ [][NextExtract]_vars

IdKeys ==
    {"document_id", "aadhaar_number", "vid", "pan_number", "voter_id",
     "dl_number"}

\* v, with white space allowed between its characters, stands in txt between
\* two places where no letter or digit continues it
WholeTokenIn(v, txt) ==
    \E b \in 1..Len(txt), e \in 1..Len(txt) :
        /\ b <= e
        /\ txt[b] \notin Whitespace /\ txt[e] \notin Whitespace
        /\ SelectSeq(SubSeq(txt, b, e), LAMBDA c : c \notin Whitespace) = v
        /\ (b = 1 \/ txt[b - 1] \notin WordChar)
        /\ (e = Len(txt) \/ txt[e + 1] \notin WordChar)

\* C13: every ID value returned by the extractor (document_id, vid and the
\* per-type ID fields) is a whole token of the text: it is never taken from
\* inside a longer unbroken run of letters or digits.
C13_IdsAreWholeTokens ==
    Extracted =>
        \A k \in IdKeys :
            Has(info, k) =>
                WholeTokenIn(info[k], Upper(convert_hindi_numerals(text)))

-----------------------------------------------------------------------------
(* The generic extraction for UNKNOWN and unrecognized types               *)

MaxLinesFallback == 2
FallbackLines ==
    {S("ABCDE1234F"),
     S("1234 5678 9012"),
     S("ABC1234567"),
     S("MH12 20010149313"),
     S("DOB: 13/07/2001"),
     S("xyz")}
OtherTypes == {"UNKNOWN", "PASSPORT"}
InitFallback ==
    InitExtractOf(TextsOf(FallbackLines, MaxLinesFallback), OtherTypes)
SpecFallback == InitFallback /\ [][NextExtract]_vars

\* the tokens of the four shapes in txt, in the order the fallback tries
\* them; None for a shape that does not match
ShapeTokens(txt) ==
    LET text_clean == clean_text_for_matching(txt)
        text_upper == Upper(txt)
        pan_match == ReSearch(PAN_PATTERN, text_upper, FALSE)
        aadhaar_match == ReSearch(AADHAAR_PATTERN, text_clean, FALSE)
        voter_id_match == ReSearch(VOTER_ID_PATTERN, text_upper, FALSE)
        dl_match == ReSearch(DRIVING_LICENSE_PATTERN, text_upper, FALSE)
    IN  << IF pan_match.ok THEN GroupOf(pan_match, text_upper, 1) ELSE None,
           IF aadhaar_match.ok
           THEN RemoveChar(GroupOf(aadhaar_match, text_clean, 1), " ")
           ELSE None,
           IF voter_id_match.ok THEN GroupOf(voter_id_match, text_upper, 1)
           ELSE None,
           IF dl_match.ok THEN RemoveChar(GroupOf(dl_match, text_upper, 1), " ")
           ELSE None >>

\* C14: for UNKNOWN or any unrecognized type, document_id is the token of
\* the first of the PAN, Aadhaar, Voter-ID and Driving-License shapes that
\* matches the text, and is absent when none matches.
C14_FirstShapeWins ==
    (Extracted /\ doc_type \notin Types) =>
        LET tokens == ShapeTokens(text)
            found == {n \in 1..4 : tokens[n] # None}
        IN  IF found = {} THEN ~Has(info, "document_id")
            ELSE Get(info, "document_id") =
                     tokens[CHOOSE n \in found : \A n2 \in found : n <= n2]

-----------------------------------------------------------------------------
(* Inputs of every kind: blank texts, texts with fields, values that are   *)
(* not strings                                                             *)

MaxLinesInputs == 2
InputLines ==
    {<<>>,
     S(" "),
     S("Name"),
     S("Name: Sita Devi"),
     S("Age:"),
     S("Age: 25"),
     S("1234 5678 9012")}
InputTypes == AllTypes \cup {"PASSPORT", ""}

InitInputs ==
    /\ text \in TextsOf(InputLines, MaxLinesInputs) \cup NonStrings
    /\ \/ pc = "classify" /\ doc_type = ""
       \/ pc = "extract" /\ doc_type \in InputTypes
    /\ scores = ZeroScores
    /\ result = NoResult
    /\ info = NoInfo
    /\ calls = NoCalls
    /\ returned = NoReturned

NextInputs ==
    \/ RaiseInClassify
    \/ CountKeywords
    \/ PatternBonus
    \/ HandwrittenAdjust
    \/ Decide
    \/ RaiseInExtract
    \/ Extract

SpecInputs == InitInputs /\ [][NextInputs]_vars

\* the text has no line that is not blank
Blank(txt) == \A i \in 1..Len(txt) : txt[i] \in Whitespace

\* d is a mapping from keys to strings
IsMapping(d) == \A k \in DOMAIN d : IsStr(d[k])

C16_NonStringDegrades ==
    ~IsStr(text) =>
        /\ pc # "raised"
        /\ Classified => result.type = "UNKNOWN" /\ result.num = 0
        /\ Extracted => info = <<>>

\* the calls a session makes, and what each returns when it runs alone
SessionCalls ==
    {[op |-> "classify", text |-> txt, type |-> ""] : txt \in SessionTexts}
    \cup {[op |-> "extract", text |-> txt, type |-> ty] :
             txt \in SessionTexts, ty \in SessionTypes}
RunAlone ==
    [c \in SessionCalls |->
        IF c.op = "classify"
        THEN Classification(
                 HandwrittenScores(
                     PatternScores(KeywordScores(c.text), c.text), c.text))
        ELSE extract_document_info(c.text, c.type)]

-----------------------------------------------------------------------------
(* Several labelled fields in one text, on one line and on separate lines  *)

MaxFields == 2
FieldLines ==
    {S("Name: Sita Devi"),
     S("Age: 25"),
     S("Gender: Female"),
     S("DOB: 13/07/2001"),
     S("Pin Code: 411001"),
     S("Mobile: 9876543210")}
FieldTypes == {"PAN", "VOTER_ID", "HANDWRITTEN"}

\* one to n labelled fields, each after a space or on a line of its own
RECURSIVE FieldTexts(_)
FieldTexts(n) ==
    IF n = 0 THEN {}
    ELSE FieldLines \cup FieldTexts(n - 1)
         \cup {t \o sep \o l : t \in FieldTexts(n - 1), sep \in {<<" ">>, <<"\n">>},
                               l \in FieldLines}

InitFields == InitExtractOf(FieldTexts(MaxFields), FieldTypes)
SpecFields == InitFields /\ [][NextExtract]_vars

\* the fields each parser extracts from a labelled field that stands alone
FieldsAlone ==
    [ty \in FieldTypes |->
        [l \in FieldLines |-> DOMAIN extract_document_info(l, ty)]]

\* C18: in every typed parser each field is attempted independently of the
\* others: a field that the parser extracts from its label and value alone
\* is also extracted from a text that holds the same label and value next to
\* another field, on the same line or on another line.
C18_FieldsAreIndependent ==
    Extracted =>
        \A l \in FieldLines :
            Contains(text, l) =>
                \A k \in FieldsAlone[doc_type][l] : Has(info, k)

\* C19: for type HANDWRITTEN the returned mapping always contains the
\* marker field document_type with the value "Handwritten Form", for every
\* text, including text from which no other field is extracted.
C19_HandwrittenMarker ==
    (Extracted /\ doc_type = "HANDWRITTEN") =>
        Get(info, "document_type") = S("Handwritten Form")

\* a handwritten form with a label and no value: nothing but the marker is
\* extracted
C19_Witness ==
    /\ Extracted /\ doc_type = "HANDWRITTEN"
    /\ Contains(text, S("Age:"))
    /\ DOMAIN info = {"document_type"}

-----------------------------------------------------------------------------
(* Driving-license numbers after labels, and with few digits               *)

MaxLinesDl == 2
DlInputLines ==
    {S("MH12 20010149313"),
     S("DL No MH12 20010149313"),
     S("Licence: KA01 123456789"),
     S("MH12 2001014"),
     S("MH12 2001"),
     S("MH12 200"),
     S("xyz")}
InitDl ==
    /\ text \in TextsOf(DlInputLines, MaxLinesDl)
    /\ doc_type = ""
    /\ pc = "classify"
    /\ scores = ZeroScores
    /\ result = NoResult
    /\ info = NoInfo
    /\ calls = NoCalls
    /\ returned = NoReturned
SpecDl == InitDl /\ [][NextClassify]_vars

\* v is 2 letters, 2 digits and 4 to 11 further digits
IsDlShaped(v) ==
    /\ Len(v) \in 8..15
    /\ \A i \in 1..Len(v) :
          IF i <= 2 THEN v[i] \in AsciiUpper ELSE v[i] \in UniDigit

\* txt holds a token that has that shape once its spaces are removed
HasDlToken(txt) ==
    \E b \in 1..Len(txt), e \in 1..Len(txt) :
        /\ b <= e
        /\ txt[b] # " " /\ txt[e] # " "
        /\ IsDlShaped(RemoveChar(SubSeq(txt, b, e), " "))
        /\ (b = 1 \/ txt[b - 1] \notin WordChar)
        /\ (e = Len(txt) \/ txt[e + 1] \notin WordChar)

\* C20: classify_document adds 3 to the DRIVING_LICENSE score whenever the
\* text holds a driving-license-shaped token of 2 letters, 2 digits and
\* then 4 to 11 further digits, its internal spaces removed, whatever word
\* or label precedes the token.
C20_DlTokenAddsThree ==
    (pc = "patterns" /\ HasDlToken(Upper(text))) =>
        scores["DRIVING_LICENSE"] = KeywordScores(text)["DRIVING_LICENSE"] + 3

-----------------------------------------------------------------------------
(* Forms with field labels and an official ID                              *)

MaxLinesForms == 3
FormLines ==
    {S("Gender: Female"),
     S("Date of Birth / Address"),
     S("DL No MH12 20010149313"),
     S("MH12 20010149313"),
     S("1234 5678 9012"),
     S("Pin Code"),
     S("xyz")}
InitForms ==
    /\ text \in TextsOf(FormLines, MaxLinesForms)
    /\ doc_type = ""
    /\ pc = "classify"
    /\ scores = ZeroScores
    /\ result = NoResult
    /\ info = NoInfo
    /\ calls = NoCalls
    /\ returned = NoReturned
SpecForms == InitForms /\ [][NextClassify]_vars

\* a PAN, Aadhaar, Voter-ID or Driving-License token is in the text
OfficialIdInText(txt) ==
    \/ HasPanPattern(txt)
    \/ HasAadhaarPattern(txt)
    \/ HasVoterPattern(txt)
    \/ HasDlToken(Upper(txt))

\* C21: the HANDWRITTEN score is adjusted only when its keyword count is at
\* least 3: it is then the count plus 2 when no official ID pattern is in
\* the text and the count minus 2 when one is; with fewer than 3 keyword
\* matches it is the keyword count unchanged.
C21_HandwrittenAdjustedOnce ==
    pc \in {"adjusted", "classified"} =>
        LET k == KeywordScores(text)["HANDWRITTEN"]
        IN  scores["HANDWRITTEN"] =
                IF k >= 3
                THEN IF OfficialIdInText(text) THEN k - 2 ELSE k + 2
                ELSE k

-----------------------------------------------------------------------------
(* Labels without a value, followed by the line of another field           *)

MaxLinesStops == 2
StopLines ==
    {S("Name:"),
     S("First Name:"),
     S("Address:"),
     S("Father's Name"),
     S("Gender: Female"),
     S("Age: 25"),
     S("Sita Devi"),
     S("ROBERT")}
StopTypes == {"PAN", "HANDWRITTEN", "DRIVING_LICENSE"}
InitStops == InitExtractOf(TextsOf(StopLines, MaxLinesStops), StopTypes)
SpecStops == InitStops /\ [][NextExtract]_vars

\* the fields whose value may be taken from the following lines, and lines
\* that carry the label and value of other fields
ScannedKeys ==
    {"father_name", "name", "first_name", "middle_name", "surname", "address"}
OtherFieldLines == {S("Gender: Female"), S("Age: 25")}

\* C22: when a field's value is taken from the lines that follow its label,
\* the scan stops at a line that carries another field's label: such a line
\* is never returned as, or appended to, the value of the field.
C22_ScanStopsAtOtherLabel ==
    Extracted =>
        \A k \in ScannedKeys, l \in OtherFieldLines :
            Has(info, k) => ~Contains(Upper(info[k]), Upper(l))

-----------------------------------------------------------------------------
(* Driving-licence name lines, with and without a relationship marker      *)

MaxLinesLicence == 2
LicenceLines ==
    {S("Name: RAVI"),
     S("Name: SONAL"),
     S("Name: RAMDAS SOLANKI"),
     S("Name: RAM S/O SHYAM"),
     S("Name: SONAL S/O RAM"),
     S("Name: DOLLY D/O RAM"),
     S("Name: RAM S/O SHYAM DOB 01/01/2000"),
     S("DOB 01/01/2000")}
InitLicence ==
    InitExtractOf(TextsOf(LicenceLines, MaxLinesLicence), {"DRIVING_LICENSE"})
SpecLicence == InitLicence /\ [][NextExtract]_vars

\* the text of s before and after the first occurrence of sub
Before(s, sub) == IF Contains(s, sub) THEN Slice(s, 0, Find(s, sub)) ELSE s
After(s, sub) ==
    IF Contains(s, sub) THEN Slice(s, Find(s, sub) + Len(sub), Len(s)) ELSE <<>>

\* the relationship markers as they stand in a line, between two words
MarkerWords == {S(" S/O "), S(" D/O ")}
MarkerOf(line) ==
    IF \E m \in MarkerWords : Contains(line, m)
    THEN CHOOSE m \in MarkerWords : Contains(line, m)
    ELSE <<>>
\* the value after the Name label: all of it, or the part before the
\* marker; and the part after the marker up to the next field marker
NameLabelled(line) == Contains(line, S("Name: "))
NameValue(line) ==
    LET value == After(line, S("Name: "))
    IN  IF MarkerOf(line) = <<>> THEN value ELSE Before(value, MarkerOf(line))
FatherValue(line) == Before(After(line, MarkerOf(line)), S(" DOB "))

\* C23: for type DRIVING_LICENSE the name is the complete value after the
\* Name label: on a merged line "Name: X S/O Y" (or D/O) it is all of X and
\* father_name is Y up to the next field marker, and on a line without a
\* marker it is the whole value; it is never cut at letters inside one of
\* its words that spell a marker.
C23_NameIsTheWholeValue ==
    Extracted /\ StrippedLines(text) # <<>> =>
        LET line == StrippedLines(text)[1]
        IN  NameLabelled(line) =>
                /\ Get(info, "name") = NameValue(line)
                /\ MarkerOf(line) # <<>> =>
                       Get(info, "father_name") = FatherValue(line)

-----------------------------------------------------------------------------
(* Aadhaar numbers with and without a label                                *)

MaxLinesLabels == 3
LabelLines ==
    {S("Aadhaar No: 1234 5678 9012"),
     S("Your Aadhaar No. : 6713 3842 5045"),
     (<<"u0906", "u0927", "u093E", "u0930">> \o S(" ") \o <<"u0915", "u094D", "u0930", "u092E", "u093E", "u0902", "u0915">> \o S(" : ")) \o S("4444 5555 6666"),
     S("Aadhaar No: 9999888877776666"),
     S("1111 2222 3333"),
     S("Name: Sita Devi")}
InitLabels ==
    InitExtractOf(TextsOf(LabelLines, MaxLinesLabels), {"AADHAAR"})
SpecLabels == InitLabels /\ [][NextExtract]_vars

\* the labels as they are written in a line, and the number of a line that
\* is a label followed by exactly twelve digits in groups of four
WrittenLabels ==
    {S("Aadhaar No: "), S("Your Aadhaar No. : "), (<<"u0906", "u0927", "u093E", "u0930">> \o S(" ") \o <<"u0915", "u094D", "u0930", "u092E", "u093E", "u0902", "u0915">> \o S(" : "))}
IsPrefix(p, s) == Len(p) <= Len(s) /\ SubSeq(s, 1, Len(p)) = p
LabelOf(line) ==
    IF \E p \in WrittenLabels : IsPrefix(p, line)
    THEN CHOOSE p \in WrittenLabels : IsPrefix(p, line)
    ELSE <<>>
LabelledNumber(line) ==
    RemoveChar(SubSeq(line, Len(LabelOf(line)) + 1, Len(line)), " ")
IsLabelled(line) ==
    /\ LabelOf(line) # <<>>
    /\ Len(LabelledNumber(line)) = 12
    /\ \A i \in 1..12 : LabelledNumber(line)[i] \in AsciiDigit
LabelledNumbers(txt) ==
    {LabelledNumber(StrippedLines(txt)[i]) :
        i \in {j \in DOMAIN StrippedLines(txt) :
                  IsLabelled(StrippedLines(txt)[j])}}

\* C24: for type AADHAAR, when the text contains a 12-digit number right
\* after an Aadhaar-number label, document_id is such a labelled number,
\* whatever unlabelled 12-digit token stands earlier in the text; the
\* unlabelled scan decides only when no labelled number exists.
C24_LabelledNumberIsPreferred ==
    Extracted /\ LabelledNumbers(text) # {} =>
        Get(info, "document_id") \in LabelledNumbers(text)

-----------------------------------------------------------------------------
(* Handwritten forms with a full name of one to four words                 *)

MaxLinesSplit == 2
SplitLines ==
    {S("Name: Sita"),
     S("Name: Sita Devi"),
     S("Name: Sita Kumari Devi"),
     S("Name: Sita Kumari Rani Devi"),
     S("Name:"),
     S("Ram  Das"),
     S("First Name: Sita"),
     S("Surname: Devi"),
     S("Age: 25")}
InitSplit == InitExtractOf(TextsOf(SplitLines, MaxLinesSplit), {"HANDWRITTEN"})
SpecSplit == InitSplit /\ [][NextExtract]_vars

\* the text has a label of a part of the name
HasPartLabel(txt) ==
    Contains(txt, S("First Name")) \/ Contains(txt, S("Surname"))
\* the parts of the name that are present, in the order first, middle, last
PartKeys == <<"first_name", "middle_name", "surname">>
PartsPresent(d) ==
    LET keys == SelectSeq(PartKeys, LAMBDA k : Has(d, k))
    IN  [i \in DOMAIN keys |-> d[keys[i]]]
PartKeysPresent(d) == {k \in Range(PartKeys) : Has(d, k)}

\* C25: for type HANDWRITTEN, when no label of a part of the name gives a
\* value and a full name is found, the name is split by its number of
\* words: one word gives first_name only, two give first_name and surname,
\* three or more give first_name, middle_name (all the inner words) and
\* surname; joining the parts present with single spaces gives back name.
C25_NameSplitByWordCount ==
    Extracted /\ ~HasPartLabel(text) /\ Has(info, "name") =>
        LET w == Words(info["name"])
            n == Len(w)
        IN  /\ n >= 1
            /\ info["first_name"] = w[1]
            /\ n = 1 => PartKeysPresent(info) = {"first_name"}
            /\ n = 2 => /\ PartKeysPresent(info) = {"first_name", "surname"}
                        /\ info["surname"] = w[2]
            /\ n >= 3 => /\ PartKeysPresent(info) = Range(PartKeys)
                         /\ info["middle_name"] =
                                Join(<<" ">>, SubSeq(w, 2, n - 1))
                         /\ info["surname"] = w[n]
            /\ Join(<<" ">>, PartsPresent(info)) = info["name"]
\* a full name of four words was split, its two inner words the middle name
C25_Witness ==
    /\ Extracted
    /\ ~HasPartLabel(text)
    /\ Has(info, "middle_name")
    /\ Len(Words(info["middle_name"])) = 2
    /\ Len(Words(info["name"])) = 4

-----------------------------------------------------------------------------
(* Handwritten forms with ages inside, at and beyond the bounds            *)

MaxLinesAges == 2
AgeLines ==
    {S("Age: 0"),
     S("Age: 1"),
     S("Age: 025"),
     S("Age: 149"),
     S("Age: 150"),
     S("Age: 151"),
     S("Age: 999"),
     S("Age: 1234"),
     S("Age:"),
     S("30"),
     S("200"),
     S("Name: Sita Devi")}
InitAges == InitExtractOf(TextsOf(AgeLines, MaxLinesAges), {"HANDWRITTEN"})
SpecAges == InitAges /\ [][NextExtract]_vars

MinAge == 0
MaxAge == 150
\* the decimal texts of the integers within the bounds
PlausibleAges == {StrOf(n) : n \in MinAge..MaxAge}
\* the numbers written in the text, one to a line, that are out of bounds
DigitsOf(line) == SelectSeq(line, LAMBDA c : c \in AsciiDigit)
NumbersOutOfBounds(txt) ==
    {IntOf(DigitsOf(StrippedLines(txt)[i])) :
        i \in {j \in DOMAIN StrippedLines(txt) :
                  /\ DigitsOf(StrippedLines(txt)[j]) # <<>>
                  /\ IntOf(DigitsOf(StrippedLines(txt)[j])) \notin MinAge..MaxAge}}

\* C26: for type HANDWRITTEN the age, when present, is the decimal text of
\* an integer within the bounds 0 to 150, and a number out of the bounds
\* that follows an age label is never returned as the age.
C26_AgeWithinBounds ==
    Extracted /\ Has(info, "age") =>
        /\ info["age"] \in PlausibleAges
        /\ \A n \in NumbersOutOfBounds(text) : info["age"] # StrOf(n)
\* an age was returned from a text that also has an age out of the bounds
C26_Witness ==
    /\ Extracted
    /\ Has(info, "age")
    /\ Contains(text, S("Age: 999"))

-----------------------------------------------------------------------------
(* Driving licences with none to three of the parts of the address         *)

MaxLinesAddress == 3
AddressLines ==
    {S("Add: MG Road"),
     S("Add: A"),
     S("Tal: Haveli"),
     S("Dist: Pune"),
     S("Add: MG Road Tal: Haveli"),
     S("Name: RAVI"),
     S("DOB 01/01/2000")}
InitAddress ==
    InitExtractOf(TextsOf(AddressLines, MaxLinesAddress), {"DRIVING_LICENSE"})
SpecAddress == InitAddress /\ [][NextExtract]_vars

\* the parts of the address that were extracted, as they are rendered
RenderedParts(d) ==
    (IF Has(d, "address") THEN <<d["address"]>> ELSE <<>>)
    \o (IF Has(d, "taluka") THEN <<S("Tal: ") \o d["taluka"]>> ELSE <<>>)
    \o (IF Has(d, "district") THEN <<S("Dist: ") \o d["district"]>> ELSE <<>>)

\* C27: for type DRIVING_LICENSE, full_address is present if and only if at
\* least two of address, taluka and district were extracted, and it is then
\* the present ones, in that order, joined by ", ", the taluka rendered as
\* "Tal: X" and the district as "Dist: Y".
C27_FullAddressOfTwoParts ==
    Extracted =>
        /\ Has(info, "full_address") <=> Len(RenderedParts(info)) >= 2
        /\ Has(info, "full_address") =>
               info["full_address"] = Join(S(", "), RenderedParts(info))
\* a full address of a taluka and a district, without an address
C27_Witness ==
    /\ Extracted
    /\ Has(info, "full_address")
    /\ ~Has(info, "address")
    /\ info["full_address"] = S("Tal: HAVELI, Dist: PUNE")

-----------------------------------------------------------------------------
(* Texts with every keyword of a type, and forms with an official ID       *)

MaxLinesScores == 3
ScoreLines ==
    {S("ABCDE1234F Permanent Account Number PAN Card"),
     S("Income Tax Department Govt. of India"),
     S("Father's Name ") \o (<<"u0906", "u092F", "u0915", "u0930">> \o S(" ") \o <<"u0935", "u093F", "u092D", "u093E", "u0917">> \o S(" ") \o <<"u092A", "u093F", "u0924", "u093E">> \o S(" ") \o <<"u0915", "u093E">> \o S(" ") \o <<"u0928", "u093E", "u092E">>),
     S("Gender: Female"),
     S("Date of Birth / Address"),
     S("1234 5678 9012")}
InitScores ==
    /\ text \in TextsOf(ScoreLines, MaxLinesScores)
    /\ doc_type = ""
    /\ pc = "classify"
    /\ scores = ZeroScores
    /\ result = NoResult
    /\ info = NoInfo
    /\ calls = NoCalls
    /\ returned = NoReturned
SpecScores == InitScores /\ [][NextClassify]_vars

\* C28: in classify_document the score of every type is non-negative at
\* every point of the computation and at return; the penalty of 2 is taken
\* only from a handwritten score of at least 3, so the handwritten score
\* after the penalty is at least 1.
C28_ScoresNeverNegative ==
    /\ \A t \in Types : scores[t] >= 0
    /\ pc \in {"adjusted", "classified"}
       /\ scores["HANDWRITTEN"] < KeywordScores(text)["HANDWRITTEN"] =>
           scores["HANDWRITTEN"] >= 1
\* the penalty was taken from a handwritten score of exactly 3
C28_Witness ==
    /\ pc = "adjusted"
    /\ KeywordScores(text)["HANDWRITTEN"] = 3
    /\ scores["HANDWRITTEN"] = 1

\* the number of keywords of each type, and the bonus a type can get
KeywordCount ==
    [t \in Types |->
       CASE t = "AADHAAR" -> Len(AADHAAR_KEYWORDS)
         [] t = "PAN" -> Len(PAN_KEYWORDS)
         [] t = "VOTER_ID" -> Len(VOTER_ID_KEYWORDS)
         [] t = "DRIVING_LICENSE" -> Len(DRIVING_LICENSE_KEYWORDS)
         [] t = "HANDWRITTEN" -> Len(HANDWRITTEN_KEYWORDS)]
BonusOf == [t \in Types |-> IF t \in {"AADHAAR", "HANDWRITTEN"} THEN 2 ELSE 3]

\* C29: in classify_document the final score of a type never exceeds the
\* type's max-possible constant, its number of keywords plus 2 for AADHAAR
\* and HANDWRITTEN and plus 3 for the others; so the clamp at 1.0 leaves
\* the quotient as it is, and the confidence is 1.0 only when every
\* keyword of the winning type and its bonus matched.
C29_ScoreWithinMaxPossible ==
    /\ \A t \in Types :
           /\ max_possible[t] = KeywordCount[t] + BonusOf[t]
           /\ scores[t] <= max_possible[t]
    /\ pc = "classified" /\ result.type # "UNKNOWN" =>
           /\ result.num = MaxScore(scores)
           /\ result.den = KeywordCount[result.type] + BonusOf[result.type]
           /\ result.num = result.den =>
                  /\ KeywordScores(text)[result.type] = KeywordCount[result.type]
                  /\ scores[result.type] - KeywordScores(text)[result.type]
                         = BonusOf[result.type]
\* a text with the seven PAN keywords and a PAN token: confidence 1.0
C29_Witness ==
    /\ pc = "classified"
    /\ result.type = "PAN"
    /\ result.num = result.den
    /\ scores["PAN"] = max_possible["PAN"]

-----------------------------------------------------------------------------
(* ID tokens of the four typed parsers, written with and without spaces    *)

MaxLinesIds == 2
IdLines ==
    {S("Aadhaar No: 1234 5678 9012"),
     S("1111 2222 3333"),
     S("ABCDE1234F"),
     S("ABC1234567"),
     S("DL No MH12 20010149313"),
     S("MH12 20010149313"),
     S("MH12"),
     S("20010149313"),
     S("xyz")}
TypedParsers == {"AADHAAR", "PAN", "VOTER_ID", "DRIVING_LICENSE"}
InitIds == InitExtractOf(TextsOf(IdLines, MaxLinesIds), TypedParsers)
SpecIds == InitIds /\ [][NextExtract]_vars

\* the key under which each typed parser repeats the ID
TypeIdKey ==
    [t \in TypedParsers |->
       CASE t = "AADHAAR" -> "aadhaar_number"
         [] t = "PAN" -> "pan_number"
         [] t = "VOTER_ID" -> "voter_id"
         [] t = "DRIVING_LICENSE" -> "dl_number"]

\* C30: in the mapping returned by each typed ID parser, document_id and
\* the ID key of the type are both absent, or both present with the same
\* value, and the value contains no space.
C30_IdKeysAgree ==
    Extracted /\ doc_type \in TypedParsers =>
        /\ Has(info, "document_id") <=> Has(info, TypeIdKey[doc_type])
        /\ Has(info, "document_id") =>
               /\ info["document_id"] = info[TypeIdKey[doc_type]]
               /\ \A i \in DOMAIN info["document_id"] :
                      info["document_id"][i] # " "
\* a labelled Aadhaar number written in groups was returned under both keys
C30_Witness ==
    /\ Extracted
    /\ doc_type = "AADHAAR"
    /\ text = S("Aadhaar No: 1234 5678 9012")
    /\ Get(info, "document_id") = S("123456789012")
    /\ Get(info, "aadhaar_number") = S("123456789012")

=============================================================================
